---- MODULE Spec2Model ----
(***************************************************************************)
(* Verification model of the resilience layer of the DID API gateway:      *)
(*   internal/shared/circuitbreaker/breaker.go   (CircuitBreaker)          *)
(*   internal/shared/retry/retry.go              (WithExponentialBackoff)  *)
(*   internal/shared/cache/multilayer.go         (MultiLayerCache)         *)
(* Time is an integer number of ticks; one tick is 10 seconds.             *)
(***************************************************************************)
EXTENDS Integers, Sequences, FiniteSets, TLC

\* ------------------------------------------------------------------ bounds
\* The clock stops at MaxTime.
MaxTime == 5
\* Config.MaxFailures / Config.Timeout / Config.ResetTimeout handed to New.
CfgMaxFailures == 2
CfgTimeout == 1
CfgResetTimeout == 1

\* Goroutines calling CircuitBreaker.Call concurrently.
Callers == {"c1", "c2"}

VARIABLES
    now,              \* time.Now(), in ticks
    \* CircuitBreaker fields (breaker.go:25-41)
    \* (lastStateChange and the total* metrics are only ever written, never read
    \* by any operation, and are left out)
    cbCfg,            \* maxFailures, timeout, resetTimeout: set by New, then constant
    state, failures, successes, lastFailTime,
    \* one Call per caller: position, fn goroutine / errCh, callCtx, return value
    cpc, fnState, deadline, ctxCancelled, callResult,
    \* history of the breaker, kept for the properties only
    recorded,         \* outcomes this Call has recorded: [fail, succ]
    doneBy,           \* what closed callCtx.Done() when the select took that case
    consecFails,      \* failures recorded since the last success or Reset
    hoSucc,           \* successes recorded since the last entry into HalfOpen
                      \* with no failure recorded since
    openedAt,         \* the time of the last transition to Open, while not Closed
    probes,           \* calls admitted since the last entry into HalfOpen with no
                      \* outcome recorded since
    \* one run of WithExponentialBackoff / WithExponentialBackoffContext
    rpc,              \* position in the function
    variant,          \* which of the two functions runs
    rcfg,             \* its Config
    attempt, lastErr, \* its locals
    rctxDone,         \* ctx.Done() is closed
    delay, timerFired,\* the delay of the current sleep and its time.After channel
    rResult,          \* the error returned
    \* history of the run, kept for the properties only
    invocations,      \* calls of fn so far
    sleeps,           \* backoff sleeps begun so far
    fnOut,            \* what the last call of fn returned
    \* MultiLayerCache
    l1,               \* the RistrettoCache: per key, no entry or one
    l2,               \* the Redis keyspace behind RedisCache: per key, no entry or one
    cli,              \* one cache operation per client goroutine
    deleted,          \* history, per key: "deleting" once a Delete removes the key,
                      \* "yes" once it returned nil with no Set writing meanwhile,
                      \* "over" once a Set writes after that
    \* the functions on DIDs: an input and the results of applying them to it
    pk,               \* a public key handed to EncodeDidKey
    did,              \* a string handed to DecodeDidKey / ValidateDID
    encoded,          \* EncodeDidKey(pk)
    decoded,          \* DecodeDidKey(encoded)
    parsed,           \* DecodeDidKey(did)
    validated,        \* ValidateDID(did)
    \* HealthChecker and one readiness probe
    hc,
    \* a request body handed to DecodeJSON and the error returned
    hx,
    \* ChallengeService: the nonces in the shared KV and one ConsumeChallenge per verifier
    chal,
    \* RateLimiter: the counter of one (did, policy) key and one request per replica
    rl,
    \* VCVerifier: a JWT-VC handed to VerifyCredential and what it returned
    vcr,
    \* TokenSigner: the key list, one token and what Verify returned for it
    tk,
    \* PolicyEngine: the policies, a path handed to Match and the policy returned
    pol,
    \* the two retry functions applied to one input: Config, ctx and fn outcomes
    rq

breakerVars == <<cbCfg, state, failures, successes, lastFailTime>>
callVars == <<cpc, fnState, deadline, ctxCancelled, callResult>>
histVars == <<recorded, doneBy, consecFails, hoSucc, openedAt, probes>>
cbVars == <<breakerVars, callVars, histVars>>

retryVars == <<rpc, variant, rcfg, attempt, lastErr, rctxDone, delay, timerFired,
               rResult, invocations, sleeps, fnOut>>

cacheVars == <<l1, l2, cli, deleted>>

codecVars == <<pk, did, encoded, decoded, parsed, validated>>

\* the services beside the breaker, the retry loop and the caches
svcVars == <<hc, hx, chal, rl, vcr, tk, pol, rq>>

funVars == <<codecVars, svcVars>>

vars == <<now, cbVars, retryVars, cacheVars, funVars>>

\* what the breaker's operations do not touch
notBreaker == <<retryVars, cacheVars, funVars>>

\* ------------------------------------------------------- CircuitBreaker
StateClosed == "Closed"
StateOpen == "Open"
StateHalfOpen == "HalfOpen"

\* The zero time.Time of a field never assigned: before every time.Now().
ZeroTime == -1000
\* Successes in HalfOpen that close the breaker.
HalfOpenSuccesses == 3
\* Defaults New substitutes for a zero Config field: 5, 10 s, 60 s.
DefaultMaxFailures == 5
DefaultTimeout == 1
DefaultResetTimeout == 6

\* the Config the breaker under test is built from
Config(mf, t, rt) == [MaxFailures |-> mf, Timeout |-> t, ResetTimeout |-> rt]
CfgBreaker == Config(CfgMaxFailures, CfgTimeout, CfgResetTimeout)

\* the fields New sets once
maxFailures == cbCfg.maxFailures
timeout == cbCfg.timeout
resetTimeout == cbCfg.resetTimeout

\* New(cfg)
New(cfg) ==
    /\ cbCfg = [maxFailures |-> IF cfg.MaxFailures = 0 THEN DefaultMaxFailures
                                ELSE cfg.MaxFailures,
                timeout |-> IF cfg.Timeout = 0 THEN DefaultTimeout ELSE cfg.Timeout,
                resetTimeout |-> IF cfg.ResetTimeout = 0 THEN DefaultResetTimeout
                                 ELSE cfg.ResetTimeout]
    /\ state = StateClosed
    /\ failures = 0
    /\ successes = 0
    /\ lastFailTime = ZeroTime

\* time.Since(t)
Since(t) == now - t

\* canAttempt that keeps the success count of an earlier HalfOpen period
canAttemptKeepsSuccesses(admit) ==
    \/ /\ state = StateClosed
       /\ admit = TRUE
       /\ UNCHANGED <<state, successes>>
    \/ /\ state = StateOpen
       /\ Since(lastFailTime) > resetTimeout
       /\ state' = StateHalfOpen
       /\ UNCHANGED successes
       /\ admit = TRUE
    \/ /\ state = StateOpen
       /\ ~(Since(lastFailTime) > resetTimeout)
       /\ admit = FALSE
       /\ UNCHANGED <<state, successes>>
    \/ /\ state = StateHalfOpen
       /\ admit = TRUE
       /\ UNCHANGED <<state, successes>>

\* canAttempt that leaves Open as soon as reset_timeout is reached
canAttemptAtTimeout(admit) ==
    \/ /\ state = StateClosed
       /\ admit = TRUE
       /\ UNCHANGED <<state, successes>>
    \/ /\ state = StateOpen
       /\ Since(lastFailTime) >= resetTimeout
       /\ state' = StateHalfOpen
       /\ successes' = 0
       /\ admit = TRUE
    \/ /\ state = StateOpen
       /\ ~(Since(lastFailTime) >= resetTimeout)
       /\ admit = FALSE
       /\ UNCHANGED <<state, successes>>
    \/ /\ state = StateHalfOpen
       /\ admit = TRUE
       /\ UNCHANGED <<state, successes>>

\* canAttempt that leaves Open only after twice reset_timeout
canAttemptTwiceTimeout(admit) ==
    \/ /\ state = StateClosed
       /\ admit = TRUE
       /\ UNCHANGED <<state, successes>>
    \/ /\ state = StateOpen
       /\ Since(lastFailTime) > 2 * resetTimeout
       /\ state' = StateHalfOpen
       /\ successes' = 0
       /\ admit = TRUE
    \/ /\ state = StateOpen
       /\ ~(Since(lastFailTime) > 2 * resetTimeout)
       /\ admit = FALSE
       /\ UNCHANGED <<state, successes>>
    \/ /\ state = StateHalfOpen
       /\ admit = TRUE
       /\ UNCHANGED <<state, successes>>

\* canAttempt: admit is the boolean it returns
canAttempt(admit) ==
    \/ /\ state = StateClosed
       /\ admit = TRUE
       /\ UNCHANGED <<state, successes>>
    \/ /\ state = StateOpen
       /\ Since(lastFailTime) > resetTimeout
       /\ state' = StateHalfOpen
       /\ successes' = 0
       /\ admit = TRUE
    \/ /\ state = StateOpen
       /\ ~(Since(lastFailTime) > resetTimeout)
       /\ admit = FALSE
       /\ UNCHANGED <<state, successes>>
    \/ /\ state = StateHalfOpen
       /\ admit = TRUE
       /\ UNCHANGED <<state, successes>>

\* recordFailure that opens only above the threshold
recordFailureAbove ==
    /\ lastFailTime' = now
    /\ IF state = StateHalfOpen
       THEN /\ state' = StateOpen
            /\ failures' = 0
       ELSE IF failures + 1 > maxFailures
       THEN /\ state' = StateOpen
            /\ failures' = failures + 1
       ELSE /\ failures' = failures + 1
            /\ UNCHANGED state
    /\ UNCHANGED successes

recordFailure ==
    /\ lastFailTime' = now
    /\ IF state = StateHalfOpen
       THEN /\ state' = StateOpen
            /\ failures' = 0
       ELSE IF failures + 1 >= maxFailures
       THEN /\ state' = StateOpen
            /\ failures' = failures + 1
       ELSE /\ failures' = failures + 1
            /\ UNCHANGED state
    /\ UNCHANGED successes

\* recordSuccess that leaves the failure counter alone outside HalfOpen
recordSuccessKeepsFailures ==
    /\ IF state = StateHalfOpen
       THEN IF successes + 1 >= HalfOpenSuccesses
            THEN /\ state' = StateClosed
                 /\ failures' = 0
                 /\ successes' = 0
            ELSE /\ successes' = successes + 1
                 /\ UNCHANGED <<state, failures>>
       ELSE UNCHANGED <<state, failures, successes>>
    /\ UNCHANGED lastFailTime

recordSuccess ==
    /\ IF state = StateHalfOpen
       THEN IF successes + 1 >= HalfOpenSuccesses
            THEN /\ state' = StateClosed
                 /\ failures' = 0
                 /\ successes' = 0
            ELSE /\ successes' = successes + 1
                 /\ UNCHANGED <<state, failures>>
       ELSE /\ failures' = 0
            /\ UNCHANGED <<state, successes>>
    /\ UNCHANGED lastFailTime

\* history kept beside recordFailure / recordSuccess
Min(a, b) == IF a < b THEN a ELSE b
noteFailure(c) ==
    /\ recorded' = [recorded EXCEPT ![c].fail = @ + 1]
    /\ consecFails' = Min(consecFails + 1, maxFailures)
    /\ hoSucc' = 0
    /\ openedAt' = IF state # StateOpen /\ state' = StateOpen THEN now ELSE openedAt
    /\ probes' = 0
noteSuccess(c) ==
    /\ recorded' = [recorded EXCEPT ![c].succ = @ + 1]
    /\ consecFails' = 0
    /\ hoSucc' = Min(hoSucc + 1, HalfOpenSuccesses)
    /\ openedAt' = IF state' = StateClosed THEN ZeroTime ELSE openedAt
    /\ probes' = 0

\* Call, up to the select: canAttempt, context.WithTimeout, go fn(callCtx)
CallAttempt(c) ==
    /\ cpc[c] = "idle"
    /\ \E admit \in BOOLEAN :
        /\ canAttempt(admit)
        /\ IF admit
           THEN /\ cpc' = [cpc EXCEPT ![c] = "select"]
                /\ fnState' = [fnState EXCEPT ![c] = "running"]
                /\ deadline' = [deadline EXCEPT ![c] = now + timeout]
                /\ UNCHANGED callResult
           ELSE /\ cpc' = [cpc EXCEPT ![c] = "done"]
                /\ callResult' = [callResult EXCEPT ![c] = "ErrCircuitOpen"]
                /\ UNCHANGED <<fnState, deadline>>
        /\ hoSucc' = IF state' = StateHalfOpen /\ state = StateOpen THEN 0 ELSE hoSucc
        /\ probes' = IF admit /\ state' = StateHalfOpen
                     THEN Min(probes + 1, Cardinality(Callers))
                     ELSE probes
    /\ UNCHANGED <<now, cbCfg, failures, lastFailTime, ctxCancelled, recorded, doneBy,
                   consecFails, openedAt>>
    /\ UNCHANGED notBreaker

\* callCtx.Done() is closed: the deadline passed or the parent was cancelled
callCtxDone(c) == now >= deadline[c] \/ ctxCancelled[c]

\* the goroutine: errCh <- fn(callCtx). fn returns nil or an error. The channel
\* is buffered: the send succeeds whether or not Call still waits.
FnReturn(c) ==
    /\ fnState[c] = "running"
    /\ \E r \in {"nil", "err"} : fnState' = [fnState EXCEPT ![c] = r]
    /\ UNCHANGED <<now, breakerVars, cpc, deadline, ctxCancelled, callResult, histVars>>
    /\ UNCHANGED notBreaker

\* Call returns r: defer cancel() releases callCtx, and the ctx of a Call that
\* has returned no longer matters
callEnds(c, r) ==
    /\ callResult' = [callResult EXCEPT ![c] = r]
    /\ cpc' = [cpc EXCEPT ![c] = "done"]
    /\ deadline' = [deadline EXCEPT ![c] = 0]
    /\ ctxCancelled' = [ctxCancelled EXCEPT ![c] = FALSE]

\* select, case err := <-errCh
CallErrCh(c) ==
    /\ cpc[c] = "select"
    /\ fnState[c] \in {"nil", "err"}
    /\ IF fnState[c] # "nil"
       THEN recordFailure /\ noteFailure(c)
       ELSE recordSuccess /\ noteSuccess(c)
    /\ callEnds(c, fnState[c])
    /\ UNCHANGED <<now, cbCfg, fnState, doneBy>>
    /\ UNCHANGED notBreaker

\* the Done case without the recordFailure call
CallCtxDoneUnrecorded(c) ==
    /\ cpc[c] = "select"
    /\ callCtxDone(c)
    /\ callEnds(c, "ErrTimeout")
    /\ doneBy' = [doneBy EXCEPT ![c] = IF now >= deadline[c] THEN "deadline" ELSE "cancel"]
    /\ UNCHANGED <<now, fnState, breakerVars, recorded, consecFails, hoSucc, openedAt,
                   probes>>
    /\ UNCHANGED notBreaker

\* select, case <-callCtx.Done()
CallCtxDone(c) ==
    /\ cpc[c] = "select"
    /\ callCtxDone(c)
    /\ recordFailure /\ noteFailure(c)
    /\ callEnds(c, "ErrTimeout")
    /\ doneBy' = [doneBy EXCEPT ![c] = IF now >= deadline[c] THEN "deadline" ELSE "cancel"]
    /\ UNCHANGED <<now, cbCfg, fnState>>
    /\ UNCHANGED notBreaker

\* the caller cancels the ctx of its Call in flight
CancelCtx(c) ==
    /\ cpc[c] = "select"
    /\ ~ctxCancelled[c]
    /\ ctxCancelled' = [ctxCancelled EXCEPT ![c] = TRUE]
    /\ UNCHANGED <<now, breakerVars, cpc, fnState, deadline, callResult, histVars>>
    /\ UNCHANGED notBreaker

\* the caller has its result and fn has returned: the caller may Call again
CallReturned(c) ==
    /\ cpc[c] = "done"
    /\ fnState[c] # "running"
    /\ cpc' = [cpc EXCEPT ![c] = "idle"]
    /\ fnState' = [fnState EXCEPT ![c] = "none"]
    /\ callResult' = [callResult EXCEPT ![c] = "none"]
    /\ recorded' = [recorded EXCEPT ![c] = [fail |-> 0, succ |-> 0]]
    /\ doneBy' = [doneBy EXCEPT ![c] = "none"]
    /\ UNCHANGED <<now, breakerVars, deadline, ctxCancelled, consecFails, hoSucc,
                   openedAt, probes>>
    /\ UNCHANGED notBreaker

\* Reset that closes the breaker and leaves the counters as they are
ResetKeepsCounters ==
    /\ state' = StateClosed
    /\ consecFails' = 0
    /\ hoSucc' = 0
    /\ openedAt' = ZeroTime
    /\ probes' = 0
    /\ UNCHANGED <<now, cbCfg, failures, successes, lastFailTime, callVars, recorded, doneBy>>
    /\ UNCHANGED notBreaker

Reset ==
    /\ state' = StateClosed
    /\ failures' = 0
    /\ successes' = 0
    /\ consecFails' = 0
    /\ hoSucc' = 0
    /\ openedAt' = ZeroTime
    /\ probes' = 0
    /\ UNCHANGED <<now, cbCfg, lastFailTime, callVars, recorded, doneBy>>
    /\ UNCHANGED notBreaker

Tick ==
    /\ now < MaxTime
    /\ now' = now + 1
    /\ UNCHANGED <<cbVars, funVars, retryVars, cacheVars>>

\* ------------------------------------------------------------------ retry
\* An error value: what isRetryable can observe of it.
\*   nonRetryable / retryable: errors.As finds a *NonRetryableError / *RetryableError
\*   deadline: errors.Is(err, context.DeadlineExceeded)
\*   temporary: "none" when err has no Temporary() method, else what it returns
Err(k, nr, r, d, t) ==
    [kind |-> k, nonRetryable |-> nr, retryable |-> r, deadline |-> d, temporary |-> t]
NilErr == Err("nil", FALSE, FALSE, FALSE, "none")
\* ctx.Err() of a done context
CtxErr == Err("ctx", FALSE, FALSE, FALSE, "none")
ErrMaxAttemptsReached == Err("ErrMaxAttemptsReached", FALSE, FALSE, FALSE, "none")
NoResult == Err("none", FALSE, FALSE, FALSE, "none")
\* the errors fn may return
FnErrors ==
    {Err("fn", nr, r, d, t) : nr \in BOOLEAN, r \in BOOLEAN, d \in BOOLEAN,
                              t \in {"none", "true", "false"}}

\* isRetryable that asks the Temporary() predicate before the deadline check
isRetryableTemporaryFirst(err) ==
    IF err.nonRetryable THEN FALSE
    ELSE IF err.retryable THEN TRUE
    ELSE IF err.temporary # "none" THEN err.temporary = "true"
    ELSE IF err.deadline THEN TRUE
    ELSE TRUE

isRetryable(err) ==
    IF err.nonRetryable THEN FALSE
    ELSE IF err.retryable THEN TRUE
    ELSE IF err.deadline THEN TRUE
    ELSE IF err.temporary # "none" THEN err.temporary = "true"
    ELSE TRUE

\* Config values tried (durations in units of 25 ms)
MaxAttemptsBound == 3
DefaultInitialDelay == 4
DefaultMultiplier == 2
MaxDelayCfg == 6
RetryConfigs ==
    [MaxAttempts : -1 .. MaxAttemptsBound,
     InitialDelay : {0, DefaultInitialDelay},
     MaxDelay : {MaxDelayCfg},
     Multiplier : {0, DefaultMultiplier},
     Jitter : BOOLEAN]

RECURSIVE Pow(_, _)
Pow(b, n) == IF n <= 0 THEN 1 ELSE b * Pow(b, n - 1)

\* calculateBackoff without the cap at MaxDelay
calculateBackoffUncapped(a, cfg) ==
    LET raw == cfg.InitialDelay * Pow(cfg.Multiplier, a)
    IN  IF cfg.Jitter /\ raw > 0
        THEN ((3 * raw) \div 4) .. (((5 * raw + 3) \div 4) - 1)
        ELSE {raw}

\* calculateBackoff: the delays it may return (one value without jitter; with
\* jitter every duration in [0.75, 1.25) of the capped delay, truncated)
calculateBackoff(a, cfg) ==
    LET raw == cfg.InitialDelay * Pow(cfg.Multiplier, a)
        capped == IF raw > cfg.MaxDelay THEN cfg.MaxDelay ELSE raw
    IN  IF cfg.Jitter /\ capped > 0
        THEN ((3 * capped) \div 4) .. (((5 * capped + 3) \div 4) - 1)
        ELSE {capped}

retryReturns(e) ==
    /\ rpc' = "done"
    /\ rResult' = e

\* entry of function v with cfg and a ctx that is done or not:
\* var lastErr error; attempt := 0
retryBegins(cfg, v, done) ==
    /\ rcfg' = cfg
    /\ variant' = v
    /\ rctxDone' = done
    /\ rpc' = "loop"
    /\ attempt' = 0
    /\ lastErr' = NilErr
    /\ delay' = 0
    /\ timerFired' = FALSE
    /\ rResult' = NoResult
    /\ invocations' = 0
    /\ sleeps' = 0
    /\ fnOut' = NilErr

\* a caller runs one of the two functions
RetryStart ==
    /\ rpc \in {"idle", "done"}
    /\ \E cfg \in RetryConfigs, v \in {"WithExponentialBackoff", "WithExponentialBackoffContext"},
          c \in BOOLEAN : retryBegins(cfg, v, c)
    /\ UNCHANGED <<now, cbVars, funVars, cacheVars>>

\* the loop with the condition attempt <= cfg.MaxAttempts
RetryLoopOneMore ==
    /\ rpc = "loop"
    /\ IF attempt <= rcfg.MaxAttempts
       THEN IF attempt > 0
            THEN /\ \E d \in calculateBackoff(attempt - 1, rcfg) :
                     /\ delay' = d
                     /\ timerFired' = (d <= 0)
                 /\ rpc' = "sleep"
                 /\ sleeps' = sleeps + 1
                 /\ UNCHANGED <<rResult, invocations>>
            ELSE /\ rpc' = "fn"
                 /\ invocations' = invocations + 1
                 /\ UNCHANGED <<rResult, delay, timerFired, sleeps>>
       ELSE /\ retryReturns(IF lastErr # NilErr THEN lastErr ELSE ErrMaxAttemptsReached)
            /\ UNCHANGED <<delay, timerFired, invocations, sleeps>>
    /\ UNCHANGED <<now, cbVars, funVars, cacheVars, variant, rcfg, attempt, lastErr, rctxDone, fnOut>>

\* the loop condition, and the body up to the select or (first attempt) the call of fn
RetryLoop ==
    /\ rpc = "loop"
    /\ IF attempt < rcfg.MaxAttempts
       THEN IF attempt > 0
            THEN /\ \E d \in calculateBackoff(attempt - 1, rcfg) :
                     /\ delay' = d
                     /\ timerFired' = (d <= 0)
                 /\ rpc' = "sleep"
                 /\ sleeps' = sleeps + 1
                 /\ UNCHANGED <<rResult, invocations>>
            ELSE /\ rpc' = "fn"
                 /\ invocations' = invocations + 1
                 /\ UNCHANGED <<rResult, delay, timerFired, sleeps>>
       ELSE /\ retryReturns(IF lastErr # NilErr THEN lastErr ELSE ErrMaxAttemptsReached)
            /\ UNCHANGED <<delay, timerFired, invocations, sleeps>>
    /\ UNCHANGED <<now, cbVars, funVars, cacheVars, variant, rcfg, attempt, lastErr, rctxDone, fnOut>>

\* the timer of time.After(delay) fires
RetryTimer ==
    /\ rpc = "sleep"
    /\ ~timerFired
    /\ timerFired' = TRUE
    /\ UNCHANGED <<now, cbVars, funVars, cacheVars, rpc, variant, rcfg, attempt, lastErr, rctxDone, delay,
                   rResult, invocations, sleeps, fnOut>>

\* select, case <-time.After(delay): on to the call of fn
RetryAfter ==
    /\ rpc = "sleep"
    /\ timerFired
    /\ rpc' = "fn"
    /\ invocations' = invocations + 1
    /\ UNCHANGED <<now, cbVars, funVars, cacheVars, variant, rcfg, attempt, lastErr, rctxDone, delay,
                   timerFired, rResult, sleeps, fnOut>>

\* select, case <-ctx.Done(): return ctx.Err()
RetryCtxDone ==
    /\ rpc = "sleep"
    /\ rctxDone
    /\ retryReturns(CtxErr)
    /\ UNCHANGED <<now, cbVars, funVars, cacheVars, variant, rcfg, attempt, lastErr, rctxDone, delay,
                   timerFired, invocations, sleeps, fnOut>>

\* the loop body without the isRetryable check
RetryFnReturnsRetriesAll ==
    /\ rpc = "fn"
    /\ \E e \in FnErrors \cup {NilErr} :
        /\ fnOut' = e
        /\ IF e = NilErr
           THEN retryReturns(NilErr) /\ UNCHANGED <<lastErr, attempt>>
           ELSE /\ lastErr' = e
                /\ attempt' = attempt + 1
                /\ rpc' = "loop"
                /\ UNCHANGED rResult
    /\ UNCHANGED <<now, cbVars, funVars, cacheVars, variant, rcfg, rctxDone, delay, timerFired,
                   invocations, sleeps>>

\* err := fn() gave e: the rest of the loop body
fnReturned(e) ==
    /\ fnOut' = e
    /\ IF e = NilErr
       THEN retryReturns(NilErr) /\ UNCHANGED <<lastErr, attempt>>
       ELSE /\ lastErr' = e
            /\ IF ~isRetryable(e)
               THEN retryReturns(e) /\ UNCHANGED attempt
               ELSE /\ attempt' = attempt + 1
                    /\ rpc' = "loop"
                    /\ UNCHANGED rResult
    /\ UNCHANGED <<now, cbVars, funVars, cacheVars, variant, rcfg, rctxDone, delay, timerFired,
                   invocations, sleeps>>

\* fn returns e: nil, a non-retryable error, or an error to retry
RetryFnReturns ==
    /\ rpc = "fn"
    /\ \E e \in FnErrors \cup {NilErr} : fnReturned(e)

\* the caller cancels ctx, or its deadline passes, while the function runs
RetryCancel ==
    /\ rpc \in {"loop", "sleep", "fn"}
    /\ ~rctxDone
    /\ rctxDone' = TRUE
    /\ UNCHANGED <<now, cbVars, funVars, cacheVars, rpc, variant, rcfg, attempt, lastErr, delay, timerFired,
                   rResult, invocations, sleeps, fnOut>>

InitRetry ==
    /\ rpc = "idle"
    /\ variant = "WithExponentialBackoff"
    /\ rcfg = [MaxAttempts |-> 0, InitialDelay |-> 0, MaxDelay |-> MaxDelayCfg,
               Multiplier |-> DefaultMultiplier, Jitter |-> FALSE]
    /\ attempt = 0
    /\ lastErr = NilErr
    /\ rctxDone = FALSE
    /\ delay = 0
    /\ timerFired = FALSE
    /\ rResult = NoResult
    /\ invocations = 0
    /\ sleeps = 0
    /\ fnOut = NilErr

\* ------------------------------------------------------------------ cache
Keys == {"rev:default"}
\* the DIDs whose public keys the DIDCache holds, under the key "did:" + did
DIDs == {"did:key:z6Mk"}
DIDKeys == {"did:" \o d : d \in DIDs}
Clients == {"g1", "g2"}
\* time.Hour, the TTL Get gives an entry it copies from L2 into L1
Hour == 360
\* TTLs handed to Set / GetOrLoad: 10 s and 20 s
TTLs == {1, 2}

\* A Go value handed to the cache: its dynamic type and its content.
Val(t, d) == [t |-> t, d |-> d]
NoVal == Val("nil", "")
Values == {Val("PublicKey", "pk"), Val("string", "s")}

\* encoding/json as RedisCache uses it: Marshal of a []byte type gives a JSON
\* string of its base64 text; Unmarshal into interface{} gives a string for a
\* JSON string.
jsonMarshal(v) ==
    IF v.t = "PublicKey" THEN [json |-> "string", text |-> "base64:" \o v.d]
    ELSE [json |-> "string", text |-> v.d]
jsonUnmarshal(j) == Val("string", j.text)

\* An entry of a layer: the value, the time it expires, and (history) the time
\* at which the ttl of the Set that the value comes from runs out: the time that
\* Set wrote it plus its ttl.
Entry(v, exp, until) == [val |-> v, exp |-> exp, freshUntil |-> until]
\* the entries of key k a layer still serves
Live(layer, k) == {e \in layer[k] : now < e.exp}

\* RistrettoCache.Get / Set / Delete
l1Get(k) == Live(l1, k)
l1Set(k, v, ttl, until) == l1' = [l1 EXCEPT ![k] = {Entry(v, now + ttl, until)}]
l1Delete(k) == l1' = [l1 EXCEPT ![k] = {}]
\* RedisCache.Get / Set / Delete, when Redis answers
l2Get(k) == {Entry(jsonUnmarshal(e.val), e.exp, e.freshUntil) : e \in Live(l2, k)}
l2Set(k, v, ttl) == l2' = [l2 EXCEPT ![k] = {Entry(jsonMarshal(v), now + ttl, now + ttl)}]
l2Delete(k) == l2' = [l2 EXCEPT ![k] = {}]

\* what an operation returned: kind is "hit" (a cached value), "loaded" (the
\* loader's value), "miss" (ErrCacheMiss), "ok" (nil) or "err"; late (history)
\* tells that the ttl of the value's Set had run out when the layer served it
Res(kind, v, late) == [kind |-> kind, val |-> v, late |-> late]
NoRes == Res("none", NoVal, FALSE)
Served(e) == Res("hit", e.val, now > e.freshUntil)

\* loads (history): the invocations of loader by the operation
\* after (history): the operation began after a Delete of its key had returned nil
Idle == [op |-> "none", pos |-> "idle", key |-> "", val |-> NoVal, ttl |-> 0,
         got |-> {}, res |-> NoRes, loads |-> 0, after |-> FALSE]

at(c, pos) == cli[c].pos = pos
goto(c, pos) == cli' = [cli EXCEPT ![c].pos = pos]
\* where an operation is once MultiLayerCache has returned: GetPublicKey goes
\* on to its type switch
returned(c) == IF cli[c].op = "GetPublicKey" THEN "switch" ELSE "done"
return(c, r) == cli' = [cli EXCEPT ![c].pos = returned(c), ![c].res = r]

\* a client calls GetOrLoad
GetOrLoadCall(c) ==
    /\ at(c, "idle")
    /\ \E k \in Keys, ttl \in TTLs :
          cli' = [cli EXCEPT ![c] = [Idle EXCEPT !.op = "GetOrLoad", !.pos = "l1get",
                                          !.key = k, !.ttl = ttl]]
    /\ UNCHANGED <<now, cbVars, funVars, retryVars, deleted, l1, l2>>

\* a client calls Get, Set, Delete or GetOrLoad
CacheCall(c) ==
    /\ at(c, "idle")
    /\ \E k \in Keys :
        \/ \E op \in {"Get", "GetOrLoad"}, ttl \in TTLs :
              cli' = [cli EXCEPT ![c] = [Idle EXCEPT !.op = op, !.pos = "l1get", !.key = k,
                                              !.ttl = IF op = "Get" THEN 0 ELSE ttl,
                                              !.after = (op = "Get" /\ deleted[k] = "yes")]]
        \/ \E v \in Values, ttl \in TTLs :
              cli' = [cli EXCEPT ![c] = [Idle EXCEPT !.op = "Set", !.pos = "l1set",
                                              !.key = k, !.val = v, !.ttl = ttl]]
        \/ cli' = [cli EXCEPT ![c] = [Idle EXCEPT !.op = "Delete", !.pos = "l1del", !.key = k]]
    /\ UNCHANGED <<now, cbVars, funVars, retryVars, deleted, l1, l2>>

\* Get: m.l1.Get(key)
GetL1(c) ==
    /\ at(c, "l1get")
    /\ IF l1Get(cli[c].key) # {}
       THEN \E e \in l1Get(cli[c].key) : return(c, Served(e))
       ELSE goto(c, "l2get")
    /\ UNCHANGED <<now, cbVars, funVars, retryVars, deleted, l1, l2>>

\* what Get returns on a miss, and where GetOrLoad goes on
getMisses(c) ==
    IF cli[c].op = "GetOrLoad" THEN goto(c, "load") ELSE return(c, Res("miss", NoVal, FALSE))

\* Get that hands the error of m.l2.Get to its caller
GetL2ReturnsError(c) ==
    /\ at(c, "l2get")
    /\ \/ \E e \in l2Get(cli[c].key) :
              cli' = [cli EXCEPT ![c].pos = "fill", ![c].got = {e}, ![c].res = Served(e)]
       \/ /\ l2Get(cli[c].key) = {}
          /\ getMisses(c)
       \/ return(c, Res("err", NoVal, FALSE))
    /\ UNCHANGED <<now, cbVars, funVars, retryVars, deleted, l1, l2>>

\* Get: m.l2.Get(ctx, key); any error of it is a miss
GetL2(c) ==
    /\ at(c, "l2get")
    /\ \/ \E e \in l2Get(cli[c].key) :
              cli' = [cli EXCEPT ![c].pos = "fill", ![c].got = {e}, ![c].res = Served(e)]
       \/ /\ l2Get(cli[c].key) = {}
          /\ getMisses(c)
       \/ getMisses(c)
    /\ UNCHANGED <<now, cbVars, funVars, retryVars, deleted, l1, l2>>

\* the L2 hit copied into L1 with a TTL of two hours
GetFillTwoHours(c) ==
    /\ at(c, "fill")
    /\ \E e \in cli[c].got :
        /\ l1Set(cli[c].key, e.val, 2 * Hour, e.freshUntil)
        /\ cli' = [cli EXCEPT ![c].pos = "done", ![c].got = {}]
    /\ UNCHANGED <<now, cbVars, funVars, retryVars, deleted, l2>>

\* Get, after the L2 hit: m.l1.Set(key, val, 1, time.Hour); return val
GetFill(c) ==
    /\ at(c, "fill")
    /\ \E e \in cli[c].got :
        /\ l1Set(cli[c].key, e.val, Hour, e.freshUntil)
        /\ cli' = [cli EXCEPT ![c].pos = returned(c), ![c].got = {}]
    /\ UNCHANGED <<now, cbVars, funVars, retryVars, deleted, l2>>

\* GetOrLoad that calls loader a second time when the first call failed
LoadTwice(c) ==
    /\ at(c, "load")
    /\ \/ \E v \in Values :
              cli' = [cli EXCEPT ![c].pos = "l1set", ![c].val = v, ![c].loads = @ + 1]
       \/ cli' = [cli EXCEPT ![c].loads = @ + 1]
    /\ UNCHANGED <<now, cbVars, funVars, retryVars, deleted, l1, l2>>

\* GetOrLoad: loader(ctx) returns a value or an error
Load(c) ==
    /\ at(c, "load")
    /\ \/ \E v \in Values :
              cli' = [cli EXCEPT ![c].pos = "l1set", ![c].val = v, ![c].loads = @ + 1]
       \/ cli' = [cli EXCEPT ![c].pos = "done", ![c].res = Res("err", NoVal, FALSE),
                              ![c].loads = @ + 1]
    /\ UNCHANGED <<now, cbVars, funVars, retryVars, deleted, l1, l2>>

\* Set that writes L1 with the TTL Get uses, time.Hour, not with ttl
SetL1Hour(c) ==
    /\ at(c, "l1set")
    /\ l1Set(cli[c].key, cli[c].val, Hour, now + cli[c].ttl)
    /\ goto(c, "l2set")
    /\ deleted' = [deleted EXCEPT ![cli[c].key] = IF @ \in {"yes", "over"} THEN "over" ELSE "no"]
    /\ UNCHANGED <<now, cbVars, funVars, retryVars, l2>>

\* Set: m.l1.Set(key, value, cost, ttl)
SetL1(c) ==
    /\ at(c, "l1set")
    /\ l1Set(cli[c].key, cli[c].val, cli[c].ttl, now + cli[c].ttl)
    /\ goto(c, "l2set")
    /\ deleted' = [deleted EXCEPT ![cli[c].key] = IF @ \in {"yes", "over"} THEN "over" ELSE "no"]
    /\ UNCHANGED <<now, cbVars, funVars, retryVars, l2>>

\* Set under GetOrLoad that hands the error of the L2 write to the caller
SetL2ReturnsError(c) ==
    /\ at(c, "l2set")
    /\ \/ /\ l2Set(cli[c].key, cli[c].val, cli[c].ttl)
          /\ return(c, IF cli[c].op = "GetOrLoad" THEN Res("loaded", cli[c].val, FALSE)
                       ELSE Res("ok", NoVal, FALSE))
       \/ /\ UNCHANGED l2
          /\ return(c, Res("err", NoVal, FALSE))
    /\ deleted' = [deleted EXCEPT ![cli[c].key] = IF @ \in {"yes", "over"} THEN "over" ELSE "no"]
    /\ UNCHANGED <<now, cbVars, funVars, retryVars, l1>>

\* Set that takes the value out of L1 again when the L2 write fails
SetL2RollsBack(c) ==
    /\ at(c, "l2set")
    /\ \/ /\ l2Set(cli[c].key, cli[c].val, cli[c].ttl)
          /\ return(c, IF cli[c].op = "GetOrLoad" THEN Res("loaded", cli[c].val, FALSE)
                       ELSE Res("ok", NoVal, FALSE))
          /\ UNCHANGED l1
       \/ /\ UNCHANGED l2
          /\ l1Delete(cli[c].key)
          /\ return(c, IF cli[c].op = "GetOrLoad" THEN Res("loaded", cli[c].val, FALSE)
                       ELSE Res("err", NoVal, FALSE))
    /\ deleted' = [deleted EXCEPT ![cli[c].key] = IF @ \in {"yes", "over"} THEN "over" ELSE "no"]
    /\ UNCHANGED <<now, cbVars, funVars, retryVars>>

\* Set: return m.l2.Set(ctx, key, value, ttl), which may fail; GetOrLoad
\* returns the loaded value either way
SetL2(c) ==
    /\ at(c, "l2set")
    /\ \/ /\ l2Set(cli[c].key, cli[c].val, cli[c].ttl)
          /\ return(c, IF cli[c].op = "GetOrLoad" THEN Res("loaded", cli[c].val, FALSE)
                       ELSE Res("ok", NoVal, FALSE))
       \/ /\ UNCHANGED l2
          /\ return(c, IF cli[c].op = "GetOrLoad" THEN Res("loaded", cli[c].val, FALSE)
                       ELSE Res("err", NoVal, FALSE))
    /\ deleted' = [deleted EXCEPT ![cli[c].key] = IF @ \in {"yes", "over"} THEN "over" ELSE "no"]
    /\ UNCHANGED <<now, cbVars, funVars, retryVars, l1>>

\* Delete: m.l1.Delete(key)
DeleteL1(c) ==
    /\ at(c, "l1del")
    /\ l1Delete(cli[c].key)
    /\ goto(c, "l2del")
    /\ deleted' = [deleted EXCEPT ![cli[c].key] = IF @ = "no" THEN "deleting" ELSE @]
    /\ UNCHANGED <<now, cbVars, funVars, retryVars, l2>>

\* Delete: return m.l2.Delete(ctx, key), which may fail
DeleteL2(c) ==
    /\ at(c, "l2del")
    /\ \/ /\ l2Delete(cli[c].key)
          /\ return(c, Res("ok", NoVal, FALSE))
          /\ deleted' = [deleted EXCEPT ![cli[c].key] = IF @ = "deleting" THEN "yes" ELSE @]
       \/ /\ UNCHANGED l2
          /\ return(c, Res("err", NoVal, FALSE))
          /\ deleted' = [deleted EXCEPT ![cli[c].key] = IF @ = "deleting" THEN "no" ELSE @]
    /\ UNCHANGED <<now, cbVars, funVars, retryVars, l1>>

\* the caller has the result
CacheReturn(c) ==
    /\ at(c, "done")
    /\ cli' = [cli EXCEPT ![c] = Idle]
    /\ UNCHANGED <<now, cbVars, funVars, retryVars, deleted, l1, l2>>

\* the size-bounded L1 evicts an entry
L1Evict(k) ==
    /\ l1[k] # {}
    /\ l1' = [l1 EXCEPT ![k] = {}]
    /\ UNCHANGED <<now, cbVars, funVars, retryVars, deleted, l2, cli>>

\* ---------------------------------------------------------------- DIDCache
\* the public keys handed to SetPublicKey
PublicKeys == {Val("PublicKey", "pk")}
\* ed25519.PublicKeySize bytes are what a []byte value must hold
IsKeySized(v) == v \in {Val("bytes", key.d) : key \in PublicKeys}

\* a client calls SetPublicKey, GetPublicKey or Invalidate
DIDCacheCall(c) ==
    /\ at(c, "idle")
    /\ \E k \in DIDKeys :
        \/ \E pubKey \in PublicKeys, ttl \in TTLs :
              cli' = [cli EXCEPT ![c] = [Idle EXCEPT !.op = "SetPublicKey", !.pos = "l1set",
                                              !.key = k, !.val = pubKey, !.ttl = ttl]]
        \/ cli' = [cli EXCEPT ![c] = [Idle EXCEPT !.op = "GetPublicKey", !.pos = "l1get",
                                            !.key = k]]
        \/ cli' = [cli EXCEPT ![c] = [Idle EXCEPT !.op = "Invalidate", !.pos = "l1del",
                                            !.key = k]]
    /\ UNCHANGED <<now, cbVars, funVars, retryVars, deleted, l1, l2>>

\* GetPublicKey after d.cache.Get: the error of Get, or the switch on the type
\* of the value (a failed switch keeps, as history, what the cache served)
PublicKeySwitch(c) ==
    /\ at(c, "switch")
    /\ LET r == cli[c].res
           v == r.val
       IN  cli' = [cli EXCEPT ![c].pos = "done", ![c].res =
                IF r.kind # "hit" THEN r
                ELSE IF v.t = "PublicKey" THEN r
                ELSE IF v.t = "bytes"
                     THEN IF IsKeySized(v) THEN Res("hit", Val("PublicKey", v.d), r.late)
                          ELSE Res("err", v, r.late)
                ELSE Res("err", v, r.late)]
    /\ UNCHANGED <<now, cbVars, funVars, retryVars, deleted, l1, l2>>

InitCache ==
    /\ l1 = [k \in Keys \cup DIDKeys |-> {}]
    /\ l2 = [k \in Keys \cup DIDKeys |-> {}]
    /\ cli = [c \in Clients |-> Idle]
    /\ deleted = [k \in Keys \cup DIDKeys |-> "no"]

\* ------------------------------------------------------------ did:key codec
\* A byte string is a sequence of 0 .. 255, a Go string a sequence of
\* one-character strings.
ed25519Prefix == <<237, 1>>
PublicKeySize == 32
DidKeyPrefix == <<"d", "i", "d", ":", "k", "e", "y", ":", "z">>

HasPrefix(s, p) == Len(s) >= Len(p) /\ SubSeq(s, 1, Len(p)) = p
TrimPrefix(s, p) == IF HasPrefix(s, p) THEN SubSeq(s, Len(p) + 1, Len(s)) ELSE s

\* base58, the Bitcoin alphabet
Alphabet ==
    <<"1", "2", "3", "4", "5", "6", "7", "8", "9",
      "A", "B", "C", "D", "E", "F", "G", "H", "J", "K", "L", "M", "N", "P", "Q", "R", "S",
      "T", "U", "V", "W", "X", "Y", "Z",
      "a", "b", "c", "d", "e", "f", "g", "h", "i", "j", "k", "m", "n", "o", "p", "q", "r",
      "s", "t", "u", "v", "w", "x", "y", "z">>
\* the value of a character, -1 when it is not in the alphabet
b58Value(ch) ==
    IF \E i \in 1 .. Len(Alphabet) : Alphabet[i] = ch
    THEN (CHOOSE i \in 1 .. Len(Alphabet) : Alphabet[i] = ch) - 1
    ELSE -1

\* the number of leading elements of s equal to x
LeadCount(s, x) ==
    CHOOSE k \in 0 .. Len(s) :
        /\ \A i \in 1 .. k : s[i] = x
        /\ k < Len(s) => s[k + 1] # x
Repeat(x, n) == [i \in 1 .. n |-> x]

\* the big-endian number bs divided by 58, with carry coming in from the left:
\* quotient (same length) and remainder. The long division runs byte by byte
\* from the left; the recursion halves bs to stay shallow.
RECURSIVE DivMod58(_, _)
DivMod58(bs, carry) ==
    IF bs = <<>> THEN [q |-> <<>>, r |-> carry]
    ELSE IF Len(bs) = 1
    THEN LET acc == carry * 256 + bs[1]
         IN  [q |-> <<acc \div 58>>, r |-> acc % 58]
    ELSE LET h == Len(bs) \div 2
             left == DivMod58(SubSeq(bs, 1, h), carry)
             right == DivMod58(SubSeq(bs, h + 1, Len(bs)), left.r)
         IN  [q |-> left.q \o right.q, r |-> right.r]

\* at most k further base58 digits of the number bs, lowest last, and the
\* quotient left: one division by 58 per digit until the number is zero
RECURSIVE Steps58(_, _)
Steps58(bs, k) ==
    IF k <= 0 THEN [q |-> bs, ds |-> <<>>]
    ELSE IF k = 1
    THEN LET n == SubSeq(bs, LeadCount(bs, 0) + 1, Len(bs))
         IN  IF n = <<>> THEN [q |-> <<>>, ds |-> <<>>]
             ELSE LET d == DivMod58(n, 0) IN [q |-> d.q, ds |-> <<Alphabet[d.r + 1]>>]
    ELSE LET low == Steps58(bs, k \div 2)
         IN  IF low.q = <<>> THEN low
             ELSE LET high == Steps58(low.q, k - (k \div 2))
                  IN  [q |-> high.q, ds |-> high.ds \o low.ds]

\* the base58 digits of the big-endian number bs (none for zero); a byte makes
\* less than two digits
Digits58(bs) == Steps58(bs, 2 * Len(bs)).ds

\* base58.Encode: a "1" per leading zero byte, then the digits of the number
base58Encode(bs) == Repeat("1", LeadCount(bs, 0)) \o Digits58(bs)

\* the bytes of bs times 58 plus c, with c coming in from the right: the bytes
\* (same length) and the carry out at the left; halved like DivMod58
RECURSIVE MulCarry58(_, _)
MulCarry58(bs, c) ==
    IF bs = <<>> THEN [d |-> <<>>, c |-> c]
    ELSE IF Len(bs) = 1
    THEN LET acc == bs[1] * 58 + c
         IN  [d |-> <<acc % 256>>, c |-> acc \div 256]
    ELSE LET h == Len(bs) \div 2
             right == MulCarry58(SubSeq(bs, h + 1, Len(bs)), c)
         IN  \* the carry moves from the last byte to the first: the right
             \* half is computed before the left half reads its carry
             IF right.c < 0 THEN right
             ELSE LET left == MulCarry58(SubSeq(bs, 1, h), right.c)
                  IN  [d |-> left.d \o right.d, c |-> left.c]

\* the big-endian number bs times 58 plus c, without leading zero bytes
MulAdd58(bs, c) ==
    LET m == MulCarry58(bs, c)
    IN  (IF m.c = 0 THEN <<>> ELSE <<m.c>>) \o m.d

\* the number whose base58 digits are the characters of s, after acc
RECURSIVE Number58(_, _)
Number58(s, acc) ==
    IF s = <<>> THEN acc
    ELSE IF Len(s) = 1 THEN MulAdd58(acc, b58Value(s[1]))
    ELSE LET h == Len(s) \div 2
             first == Number58(SubSeq(s, 1, h), acc)
         IN  IF first = <<>> THEN Number58(SubSeq(s, h + 1, Len(s)), <<>>)
             ELSE Number58(SubSeq(s, h + 1, Len(s)), first)

\* base58.Decode: an error for the empty string and for a character outside the
\* alphabet; else a zero byte per leading "1", then the bytes of the number
base58Decode(s) ==
    IF s = <<>> THEN [bytes |-> <<>>, err |-> "zero length string"]
    ELSE IF \E i \in 1 .. Len(s) : b58Value(s[i]) = -1
    THEN [bytes |-> <<>>, err |-> "invalid base58 digit"]
    ELSE [bytes |-> Repeat(0, LeadCount(s, "1")) \o Number58(s, <<>>), err |-> ""]

\* EncodeDidKey without the multicodec prefix
EncodeDidKeyBare(pub) == DidKeyPrefix \o base58Encode(pub)

EncodeDidKey(pub) == DidKeyPrefix \o base58Encode(ed25519Prefix \o pub)

\* what DecodeDidKey returns: a key and a nil error, or nil and an error
Decoded(key, err) == [key |-> key, err |-> err]

\* DecodeDidKey without the check of the key size after the prefix
DecodeDidKeyAnySize(d) ==
    IF ~HasPrefix(d, DidKeyPrefix) THEN Decoded(<<>>, "unsupported DID method")
    ELSE LET raw == base58Decode(TrimPrefix(d, DidKeyPrefix)) IN
         IF raw.err # "" THEN Decoded(<<>>, raw.err)
         ELSE IF Len(raw.bytes) < Len(ed25519Prefix) + PublicKeySize
              THEN Decoded(<<>>, "invalid did:key length")
         ELSE IF raw.bytes[1] # ed25519Prefix[1] \/ raw.bytes[2] # ed25519Prefix[2]
              THEN Decoded(<<>>, "invalid did:key prefix")
         ELSE Decoded(SubSeq(raw.bytes, Len(ed25519Prefix) + 1, Len(raw.bytes)), "")

DecodeDidKey(d) ==
    IF ~HasPrefix(d, DidKeyPrefix) THEN Decoded(<<>>, "unsupported DID method")
    ELSE LET raw == base58Decode(TrimPrefix(d, DidKeyPrefix)) IN
         IF raw.err # "" THEN Decoded(<<>>, raw.err)
         ELSE IF Len(raw.bytes) < Len(ed25519Prefix) + PublicKeySize
              THEN Decoded(<<>>, "invalid did:key length")
         ELSE IF raw.bytes[1] # ed25519Prefix[1] \/ raw.bytes[2] # ed25519Prefix[2]
              THEN Decoded(<<>>, "invalid did:key prefix")
         ELSE LET pub == SubSeq(raw.bytes, Len(ed25519Prefix) + 1, Len(raw.bytes)) IN
              IF Len(pub) # PublicKeySize THEN Decoded(<<>>, "invalid public key size")
              ELSE Decoded(pub, "")

\* before a function is applied: no input, no result
NoKey == <<>>
NoString == [s |-> <<>>, made |-> "none"]
NotEncoded == <<>>
NotRun == Decoded(<<>>, "not run")
NotValidated == [err |-> "not run", detail |-> ""]

\* the public keys tried: PublicKeySize bytes f, one of them replaced by v
TestKeys ==
    {[i \in 1 .. PublicKeySize |-> IF i = p THEN v ELSE f] :
        p \in {1, 16, PublicKeySize}, v \in {0, 1, 128, 255}, f \in {0, 7, 255}}

\* the strings handed to DecodeDidKey: a prefix, then the base58 text of some
\* bytes (a codec prefix and n bytes f), with or without a character that is
\* not a base58 digit; made (history) records how the string was built
DidKeyStrings ==
    {[s |-> pre \o (IF bad = "head" THEN <<"0">> ELSE <<>>)
                \o base58Encode(cp \o Repeat(f, n))
                \o (IF bad = "tail" THEN <<"l">> ELSE <<>>),
      made |-> [prefix |-> pre, bytes |-> cp \o Repeat(f, n), bad |-> bad]] :
        pre \in {DidKeyPrefix, <<"d", "i", "d", ":", "k", "e", "y", ":">>,
                 <<"d", "i", "d", ":", "w", "e", "b", ":", "z">>},
        cp \in {ed25519Prefix, <<236, 1>>, <<237, 0>>, <<0, 1>>, <<1>>, <<>>},
        n \in {0, PublicKeySize - 1, PublicKeySize, PublicKeySize + 1},
        f \in {0, 255},
        bad \in {"no", "head", "tail"}}

\* the functions applied
DoEncode ==
    /\ pk # NoKey
    /\ encoded = NotEncoded
    /\ encoded' = EncodeDidKey(pk)
    /\ UNCHANGED <<now, cbVars, retryVars, cacheVars, svcVars,
                   pk, did, decoded, parsed, validated>>

DoDecode ==
    /\ encoded # NotEncoded
    /\ decoded = NotRun
    /\ decoded' = DecodeDidKey(encoded)
    /\ UNCHANGED <<now, cbVars, retryVars, cacheVars, svcVars,
                   pk, did, encoded, parsed, validated>>

DoDecodeString ==
    /\ did.s # <<>>
    /\ parsed = NotRun
    /\ parsed' = DecodeDidKey(did.s)
    /\ UNCHANGED <<now, cbVars, retryVars, cacheVars, svcVars,
                   pk, did, encoded, decoded, validated>>

\* -------------------------------------------------------------- ValidateDID
Lower ==
    {"a", "b", "c", "d", "e", "f", "g", "h", "i", "j", "k", "l", "m", "n", "o", "p",
     "q", "r", "s", "t", "u", "v", "w", "x", "y", "z"}
Upper ==
    {"A", "B", "C", "D", "E", "F", "G", "H", "I", "J", "K", "L", "M", "N", "O", "P",
     "Q", "R", "S", "T", "U", "V", "W", "X", "Y", "Z"}
Digit == {"0", "1", "2", "3", "4", "5", "6", "7", "8", "9"}
\* the classes of didRegex: [a-z0-9] and [a-zA-Z0-9._%-]
MethodChars == Lower \cup Digit
IdChars == Lower \cup Upper \cup Digit \cup {".", "_", "%", "-"}
AllIn(s, class) == \A i \in 1 .. Len(s) : s[i] \in class

DidScheme == <<"d", "i", "d", ":">>
\* didRegex.FindStringSubmatch(s): the (method, id) pairs for which s is
\* "did:" method ":" id with both parts non-empty and of their classes; empty
\* when the pattern ^did:([a-z0-9]+):([a-zA-Z0-9._%-]+)$ does not match
FindStringSubmatch(s) ==
    IF ~HasPrefix(s, DidScheme) THEN {}
    ELSE LET rest == TrimPrefix(s, DidScheme) IN
         {[method |-> SubSeq(rest, 1, i - 1), id |-> SubSeq(rest, i + 1, Len(rest))] :
             i \in {j \in 2 .. Len(rest) - 1 :
                      /\ rest[j] = ":"
                      /\ AllIn(SubSeq(rest, 1, j - 1), MethodChars)
                      /\ AllIn(SubSeq(rest, j + 1, Len(rest)), IdChars)}}

MethodKey == <<"k", "e", "y">>
MethodWeb == <<"w", "e", "b">>
MethodIon == <<"i", "o", "n">>
supportedDIDMethods == {MethodKey, MethodWeb, MethodIon}

\* what ValidateDID returns: nil, or an error that is (errors.Is) ErrInvalidDID
\* or ErrInvalidDIDMethod, bare or wrapped with a detail
Validated(err, detail) == [err |-> err, detail |-> detail]

\* ValidateDID that asks at least 4 characters of a did:web id
ValidateDIDLongerWeb(d) ==
    IF d = <<>> THEN Validated("ErrInvalidDID", "")
    ELSE LET matches == FindStringSubmatch(d) IN
         IF matches = {} THEN Validated("ErrInvalidDID", "")
         ELSE LET m == CHOOSE x \in matches : TRUE IN
              IF m.method \notin supportedDIDMethods
              THEN Validated("ErrInvalidDIDMethod", "method")
              ELSE IF m.method = MethodKey /\ ~HasPrefix(m.id, <<"z">>)
              THEN Validated("ErrInvalidDID", "did:key must start with 'z'")
              ELSE IF m.method = MethodWeb /\ Len(m.id) < 4
              THEN Validated("ErrInvalidDID", "did:web domain too short")
              ELSE Validated("nil", "")

ValidateDID(d) ==
    IF d = <<>> THEN Validated("ErrInvalidDID", "")
    ELSE LET matches == FindStringSubmatch(d) IN
         IF matches = {} THEN Validated("ErrInvalidDID", "")
         ELSE LET m == CHOOSE x \in matches : TRUE IN
              IF m.method \notin supportedDIDMethods
              THEN Validated("ErrInvalidDIDMethod", "method")
              ELSE IF m.method = MethodKey /\ ~HasPrefix(m.id, <<"z">>)
              THEN Validated("ErrInvalidDID", "did:key must start with 'z'")
              ELSE IF m.method = MethodWeb /\ Len(m.id) < 3
              THEN Validated("ErrInvalidDID", "did:web domain too short")
              ELSE Validated("nil", "")

\* the strings handed to ValidateDID: scheme ":" method ":" id;
\* made (history) records the parts
Schemes == {<<"d", "i", "d">>, <<"D", "I", "D">>, <<"d", "i">>}
Methods ==
    {<<"k", "e", "y">>, <<"w", "e", "b">>, <<"i", "o", "n">>, <<"e", "t", "h">>,
     <<"K", "e", "y">>, <<>>, <<"k", "-", "y">>, <<"k", "3", "y">>}
Ids ==
    {<<"z", "6", "M", "k">>,
     <<"a", "b", "c">>,
     <<"z">>,
     <<"e", "x", "a", "m", "p", "l", "e", ".", "c", "o", "m">>,
     <<"a", ".", "b">>,
     <<"a", "b">>,
     <<>>,
     <<"e", "x", "a", "m", "p", "l", "e", ".", "c", "o", "m", ":", "u", "s", "e", "r", "s", ":", "a", "l", "i", "c", "e">>,
     <<"l", "o", "c", "a", "l", "h", "o", "s", "t", ":", "8", "8", "8", "8">>,
     <<"a", " ", "b">>,
     <<"e", "x", "%", "3", "A", "8", "0", "8", "0">>,
     <<"E", "i", "D", "a", "h", "a", "O", "G", "H", "-", "l", "i", "L", "L">>,
     <<"z", "6", "M", "k", "\n">>}
ValidateStrings ==
    {[s |-> sc \o <<":">> \o me \o <<":">> \o id,
      made |-> [scheme |-> sc, method |-> me, id |-> id]] :
        sc \in Schemes, me \in Methods, id \in Ids}

DoValidate ==
    /\ did # NoString
    /\ validated = NotValidated
    /\ validated' = ValidateDID(did.s)
    /\ UNCHANGED <<now, cbVars, retryVars, cacheVars, svcVars,
                   pk, did, encoded, decoded, parsed>>

\* ------------------------------------------------------------ HealthChecker
StatusHealthy == "healthy"
StatusDegraded == "degraded"
StatusUnhealthy == "unhealthy"
StatusOK == 200
StatusServiceUnavailable == 503

\* the checkers a process may register, and how many of them at most
CheckerNames == {"database", "redis", "kms"}
MaxCheckers == 3
\* what a checker's Check returns
CheckErrors == {"nil", "connection refused"}

\* a slot of components that no goroutine has written yet
NoComponent == [name |-> "", status |-> "", error |-> ""]
Component(n, s, e) == [name |-> n, status |-> s, error |-> e]

statusFromError(err) == IF err = "nil" THEN StatusHealthy ELSE StatusUnhealthy

CountStatus(components, s) ==
    Cardinality({i \in DOMAIN components : components[i].status = s})

calculateOverallStatusMajority(components) ==
    IF 2 * CountStatus(components, StatusUnhealthy) > Len(components) THEN StatusUnhealthy
    ELSE IF CountStatus(components, StatusDegraded) > 0 THEN StatusDegraded
    ELSE StatusHealthy

calculateOverallStatus(components) ==
    IF CountStatus(components, StatusUnhealthy) > 0 THEN StatusUnhealthy
    ELSE IF CountStatus(components, StatusDegraded) > 0 THEN StatusDegraded
    ELSE StatusHealthy

\* New, and no probe running
NewHealth == [checkers |-> <<>>, pos |-> "idle", snap |-> <<>>, components |-> <<>>,
              running |-> {}, errs |-> <<>>, overall |-> "", code |-> 0]

\* what the health operations leave alone
notHealth == <<now, cbVars, retryVars, cacheVars, codecVars, hx, chal, rl, vcr, tk, pol, rq>>

\* Register: appends under the write lock
HealthRegister(n) ==
    /\ Len(hc.checkers) < MaxCheckers
    /\ \A i \in DOMAIN hc.checkers : hc.checkers[i] # n
    /\ hc' = [hc EXCEPT !.checkers = Append(@, n)]
    /\ UNCHANGED notHealth

\* ReadinessHandler calls Check: the list is read under the read lock, components
\* is made with one nil slot per checker and one goroutine is started per checker
ReadinessStart ==
    /\ hc.pos = "idle"
    /\ hc' = [hc EXCEPT !.pos = "wait",
                        !.snap = hc.checkers,
                        !.components = [i \in DOMAIN hc.checkers |-> NoComponent],
                        !.errs = [i \in DOMAIN hc.checkers |-> "none"],
                        !.running = DOMAIN hc.checkers,
                        !.overall = "",
                        !.code = 0]
    /\ UNCHANGED notHealth

\* the goroutine of slot idx with one shared list in place of per-slot
\* ownership: the component goes to the first slot nobody has written yet
CheckerReturnsShared(idx, err) ==
    /\ hc.pos = "wait"
    /\ idx \in hc.running
    /\ LET free == {i \in DOMAIN hc.components : hc.components[i] = NoComponent}
           slot == CHOOSE i \in free : \A j \in free : i <= j
       IN hc' = [hc EXCEPT !.components[slot] =
                               Component(hc.snap[idx], statusFromError(err),
                                         IF err # "nil" THEN err ELSE ""),
                           !.errs[idx] = err,
                           !.running = @ \ {idx}]
    /\ UNCHANGED notHealth

\* the goroutine of slot idx: chk.Check returns err, the component is written to
\* components[idx], wg.Done
CheckerReturns(idx, err) ==
    /\ hc.pos = "wait"
    /\ idx \in hc.running
    /\ hc' = [hc EXCEPT !.components[idx] =
                            Component(hc.snap[idx], statusFromError(err),
                                      IF err # "nil" THEN err ELSE ""),
                        !.errs[idx] = err,
                        !.running = @ \ {idx}]
    /\ UNCHANGED notHealth

\* wg.Wait returns, Check computes the overall status and ReadinessHandler answers
ReadinessAnswer ==
    /\ hc.pos = "wait"
    /\ hc.running = {}
    /\ LET overallStatus == calculateOverallStatus(hc.components)
       IN hc' = [hc EXCEPT !.pos = "answered",
                           !.overall = overallStatus,
                           !.code = IF overallStatus = StatusHealthy
                                    THEN StatusOK ELSE StatusServiceUnavailable]
    /\ UNCHANGED notHealth

\* the next probe may come
ReadinessEnds ==
    /\ hc.pos = "answered"
    /\ hc' = [hc EXCEPT !.pos = "idle"]
    /\ UNCHANGED notHealth


\* --------------------------------------------------------------- DecodeJSON
\* A request body is a sequence of segments, each some blocks long; one block
\* is 256 KiB. A segment is white space, a complete JSON object whose fields
\* dst knows, a complete JSON object with a field dst does not know, or bytes
\* that are no JSON; "cut" is what is left of an object that lost its end.
maxBodyBytes == 4
SegKinds == {"ws", "object", "unknown", "garbage"}
SegLens == {1, 2}
MaxSegs == 3
Seg(k, n) == [kind |-> k, len |-> n]
Segs == {Seg(k, n) : k \in SegKinds, n \in SegLens}
Bodies == UNION {[1..n -> Segs] : n \in 0..MaxSegs}

RECURSIVE BodyLen(_)
BodyLen(b) == IF b = <<>> THEN 0 ELSE Head(b).len + BodyLen(Tail(b))

\* io.LimitReader(r.Body, n): the first n blocks, then EOF
RECURSIVE LimitReader(_, _)
LimitReader(b, n) ==
    IF b = <<>> \/ n = 0 THEN <<>>
    ELSE IF Head(b).len <= n THEN <<Head(b)>> \o LimitReader(Tail(b), n - Head(b).len)
    ELSE <<Seg(IF Head(b).kind \in {"object", "unknown"} THEN "cut" ELSE Head(b).kind, n)>>

\* dec.Decode with DisallowUnknownFields: white space is skipped, then one value
\* is read; intoEmpty is the decode into &struct{}{}, to which every field of
\* an object is unknown
Decoding(e, r) == [err |-> e, rest |-> r]
RECURSIVE Decode(_, _)
Decode(b, intoEmpty) ==
    IF b = <<>> THEN Decoding("EOF", <<>>)
    ELSE IF Head(b).kind = "ws" THEN Decode(Tail(b), intoEmpty)
    ELSE IF Head(b).kind = "cut" THEN Decoding("unexpected EOF", <<>>)
    ELSE IF Head(b).kind = "garbage" THEN Decoding("invalid character", Tail(b))
    ELSE IF Head(b).kind = "unknown" \/ intoEmpty THEN Decoding("unknown field", Tail(b))
    ELSE Decoding("nil", Tail(b))

DecodeJSON(b) ==
    LET body == LimitReader(b, maxBodyBytes)
        first == Decode(body, FALSE)
    IN IF first.err # "nil" THEN first.err
       ELSE IF Decode(first.rest, TRUE).err # "EOF" THEN "multiple JSON objects in body"
       ELSE "nil"

NoBody == [body |-> <<>>, err |-> "not run"]

\* what DecodeJSON leaves alone
notHttpx == <<now, cbVars, retryVars, cacheVars, codecVars, hc, chal, rl, vcr, tk, pol, rq>>

DoDecodeJSON ==
    /\ hx.err = "not run"
    /\ hx' = [hx EXCEPT !.err = DecodeJSON(hx.body)]
    /\ UNCHANGED notHttpx

\* --------------------------------------------------------- ChallengeService
\* the lifetime of a challenge (120 s by default), in ticks
ChallengeLifetime == 2
Nonces == {"n1", "n2"}
Holders == {"did:key:zAlice", "did:key:zBob"}
Verifiers == {"v1", "v2", "v3"}

\* a nonce the KV does not hold
NoNonce == [did |-> "", exp |-> 0]
NoConsume == [pos |-> "idle", nonce |-> "", did |-> "", prior |-> NoNonce, result |-> ""]
\* issued: what IssueChallenge stored for a nonce, kept for the properties only
NoChallenges == [kv |-> [n \in Nonces |-> NoNonce],
                 issued |-> [n \in Nonces |-> NoNonce],
                 calls |-> [v \in Verifiers |-> NoConsume]]

\* what the ChallengeService leaves alone
notChallenge == <<cbVars, retryVars, cacheVars, codecVars, hc, hx, rl, vcr, tk, pol, rq>>

\* IssueChallenge(did): a fresh random nonce, stored with exp = now + lifetime
IssueChallenge(n, d) ==
    /\ chal.issued[n] = NoNonce
    /\ now + ChallengeLifetime <= MaxTime
    /\ chal' = [chal EXCEPT !.kv[n] = [did |-> d, exp |-> now + ChallengeLifetime],
                        !.issued[n] = [did |-> d, exp |-> now + ChallengeLifetime]]
    /\ UNCHANGED <<now, notChallenge>>

\* the TTL of the KV entry runs out
ChallengeTTL(n) ==
    /\ chal.kv[n] # NoNonce
    /\ now >= chal.kv[n].exp
    /\ chal' = [chal EXCEPT !.kv[n] = NoNonce]
    /\ UNCHANGED <<now, notChallenge>>

\* a pop that reads the entry and leaves it in the KV
ConsumePopKeeps(v, n, d) ==
    /\ chal.calls[v].pos = "idle"
    /\ chal.issued[n] # NoNonce
    /\ chal' = [chal EXCEPT !.calls[v] =
                  IF chal.kv[n] = NoNonce
                  THEN [NoConsume EXCEPT !.pos = "done", !.nonce = n, !.did = d,
                                         !.result = "NonceUnknownOrReused"]
                  ELSE [NoConsume EXCEPT !.pos = "popped", !.nonce = n, !.did = d,
                                         !.prior = chal.kv[n]]]
    /\ UNCHANGED <<now, notChallenge>>

\* ConsumeChallenge(nonce, did), first step: atomic delete-if-exists returning
\* the prior value, else NonceUnknownOrReused
ConsumePop(v, n, d) ==
    /\ chal.calls[v].pos = "idle"
    /\ chal.issued[n] # NoNonce
    /\ chal' = [chal EXCEPT !.kv[n] = NoNonce,
                        !.calls[v] =
                  IF chal.kv[n] = NoNonce
                  THEN [NoConsume EXCEPT !.pos = "done", !.nonce = n, !.did = d,
                                         !.result = "NonceUnknownOrReused"]
                  ELSE [NoConsume EXCEPT !.pos = "popped", !.nonce = n, !.did = d,
                                         !.prior = chal.kv[n]]]
    /\ UNCHANGED <<now, notChallenge>>

\* checks that put the popped value back when they reject the call
ConsumeCheckRestores(v) ==
    /\ chal.calls[v].pos = "popped"
    /\ LET result == IF chal.calls[v].prior.did # chal.calls[v].did
                     THEN "ChallengeSubjectMismatch"
                     ELSE IF ~(now < chal.calls[v].prior.exp) THEN "ChallengeExpired"
                     ELSE "Ok"
       IN chal' = [chal EXCEPT !.calls[v].pos = "done",
                           !.calls[v].result = result,
                           !.kv[chal.calls[v].nonce] =
                               IF result = "Ok" THEN @ ELSE chal.calls[v].prior]
    /\ UNCHANGED <<now, notChallenge>>

\* the checks on the popped value: the did, then now < exp
ConsumeCheck(v) ==
    /\ chal.calls[v].pos = "popped"
    /\ chal' = [chal EXCEPT !.calls[v].pos = "done",
                        !.calls[v].result =
                            IF chal.calls[v].prior.did # chal.calls[v].did
                            THEN "ChallengeSubjectMismatch"
                            ELSE IF ~(now < chal.calls[v].prior.exp) THEN "ChallengeExpired"
                            ELSE "Ok"]
    /\ UNCHANGED <<now, notChallenge>>

\* --------------------------------------------------------------- RateLimiter
\* the rate_limit of the policy: window_seconds in ticks, max_requests
WindowSeconds == 2
MaxRequests == 4
Replicas == {"r1", "r2"}
\* the counter is followed up to this value
MaxCount == 5

\* a key without a TTL
NoTTL == -1
NoRequest == [pos |-> "idle", value |-> 0, at |-> 0]
\* count = 0: the key is not in the KV; acceptedAt: the number of requests counted
\* at each tick that were let through, kept for the properties only
NoRate == [count |-> 0, ttl |-> NoTTL,
           reqs |-> [r \in Replicas |-> NoRequest],
           acceptedAt |-> [t \in 0..MaxTime |-> 0]]

\* what the RateLimiter leaves alone
notRateLimit == <<now, cbVars, retryVars, cacheVars, codecVars, hc, hx, chal, vcr, tk, pol, rq>>

\* the key has outlived its TTL: the KV no longer holds it
RateExpired == rl.ttl # NoTTL /\ now >= rl.ttl

\* atomic INCR on the composite key
RateIncr(r) ==
    /\ rl.reqs[r].pos = "idle"
    /\ LET value == IF RateExpired THEN 1 ELSE rl.count + 1
       IN /\ value <= MaxCount
          /\ rl' = [rl EXCEPT !.count = value,
                              !.ttl = IF RateExpired THEN NoTTL ELSE @,
                              !.reqs[r] = [pos |-> "counted", value |-> value, at |-> now]]
    /\ UNCHANGED notRateLimit

\* if the returned value is 1, set TTL = window_seconds
RateSetTTL(r) ==
    /\ rl.reqs[r].pos = "counted"
    /\ rl' = [rl EXCEPT !.ttl = IF rl.reqs[r].value = 1 /\ rl.count > 0 /\ ~RateExpired
                                 THEN now + WindowSeconds ELSE @,
                        !.reqs[r].pos = "decide"]
    /\ UNCHANGED notRateLimit

\* if value > max_requests, deny with RateLimited; the replica takes its next request
RateDecide(r) ==
    /\ rl.reqs[r].pos = "decide"
    /\ rl' = [rl EXCEPT !.reqs[r] = NoRequest,
                        !.acceptedAt[rl.reqs[r].at] =
                            IF rl.reqs[r].value > MaxRequests THEN @ ELSE @ + 1]
    /\ UNCHANGED notRateLimit

\* ---------------------------------------------------------------- VCVerifier
\* the IssuerRegistry: one issuer enabled, one disabled; a third did is not in it
IssuerOn == "did:web:issuer.example"
IssuerOff == "did:web:disabled.example"
IssuerUnknown == "did:web:nobody.example"
Registry == (IssuerOn :> [enabled |-> TRUE, publicKey |-> "key-on", trustTier |-> 2])
            @@ (IssuerOff :> [enabled |-> FALSE, publicKey |-> "key-off", trustTier |-> 1])
\* the revocation list as the cache serves it
Revoked == {"J1"}

\* header and payload of a JWT-VC; signedWith is the key its signature verifies under
Credential(alg, iss, sub, iat, exp, jti, signedWith) ==
    [alg |-> alg, iss |-> iss, sub |-> sub, iat |-> iat, exp |-> exp, jti |-> jti,
     signedWith |-> signedWith]
Credentials ==
    {Credential(alg, iss, sub, iat, exp, jti, k) :
        alg \in {"EdDSA", "HS256"}, iss \in {IssuerOn, IssuerOff, IssuerUnknown},
        sub \in Holders, iat \in {0, 2}, exp \in {1, 4}, jti \in {"J1", "J2"},
        k \in {"key-on", "key-off"}}

Verified(e, claims) == [err |-> e, claims |-> claims]
NoClaims == [iss |-> "", sub |-> "", jti |-> "", trustTier |-> 0]

\* VerifyCredential(jwt, expectedSubject) at time t, steps 2 and 4 to 9
VerifyCredential(jwt, expectedSubject, t) ==
    IF jwt.alg # "EdDSA" THEN Verified("InvalidCredential", NoClaims)
    ELSE IF jwt.sub # expectedSubject THEN Verified("SubjectMismatch", NoClaims)
    ELSE IF ~(jwt.iat <= t /\ t < jwt.exp) THEN Verified("CredentialExpired", NoClaims)
    ELSE IF jwt.iss \notin DOMAIN Registry THEN Verified("UntrustedIssuer", NoClaims)
    ELSE IF ~Registry[jwt.iss].enabled THEN Verified("UntrustedIssuer", NoClaims)
    ELSE IF jwt.signedWith # Registry[jwt.iss].publicKey THEN Verified("InvalidSignature", NoClaims)
    ELSE IF jwt.jti \in Revoked THEN Verified("CredentialRevoked", NoClaims)
    ELSE Verified("nil", [iss |-> jwt.iss, sub |-> jwt.sub, jti |-> jwt.jti,
                          trustTier |-> Registry[jwt.iss].trustTier])

NoCredential == [jwt |-> Credential("", "", "", 0, 0, "", ""), expectedSubject |-> "",
                 result |-> Verified("not run", NoClaims)]

\* what the VCVerifier leaves alone
notVerifier == <<now, cbVars, retryVars, cacheVars, codecVars, hc, hx, chal, rl, tk, pol, rq>>

DoVerifyCredential ==
    /\ vcr.result.err = "not run"
    /\ vcr.jwt.alg # ""
    /\ vcr' = [vcr EXCEPT !.result = VerifyCredential(vcr.jwt, vcr.expectedSubject, now)]
    /\ UNCHANGED notVerifier

\* --------------------------------------------------------------- TokenSigner
Kids == {"k1", "k2"}
Secrets == {"s1", "s2", "s3"}
\* how many keys the list holds at most
MaxKeys == 2
SigningKey(kid, secret) == [kid |-> kid, secret |-> secret]

\* the claims of an access token
Claims(sub, exp, jti) == [sub |-> sub, exp |-> exp, jti |-> jti]
ClaimSets == {Claims(s, e, "t1") : s \in Holders, e \in {1, 3}}
NoTokenClaims == Claims("", 0, "")

\* JSON encoding of the claims and its parse
jsonClaims(c) == <<<<"sub", c.sub>>, <<"exp", c.exp>>, <<"jti", c.jti>>>>
Field(payload, name) == (CHOOSE i \in DOMAIN payload : payload[i][1] = name)
parseClaims(payload) ==
    Claims(payload[Field(payload, "sub")][2], payload[Field(payload, "exp")][2],
           payload[Field(payload, "jti")][2])

\* the HMAC of header and payload under a secret: equal only for equal arguments
HMAC(secret, header, payload) == <<secret, header, payload>>

\* Sign(claims): the kid of the active key, the encoded claims, the HMAC
Sign(claims, keys) ==
    LET header == [kid |-> keys[1].kid]
        payload == jsonClaims(claims)
    IN [header |-> header, payload |-> payload,
        mac |-> HMAC(keys[1].secret, header, payload)]

Validates(key, token) == HMAC(key.secret, token.header, token.payload) = token.mac

TokenResult(e, c) == [err |-> e, claims |-> c]

\* a Verify that tries the active key only
VerifyActiveOnly(token, keys, t) ==
    IF ~Validates(keys[1], token) THEN TokenResult("InvalidToken", NoTokenClaims)
    ELSE IF t >= parseClaims(token.payload).exp THEN TokenResult("TokenExpired", NoTokenClaims)
    ELSE TokenResult("nil", parseClaims(token.payload))

\* Verify(token) at time t: the key located by kid; if missing or the signature
\* fails, all keys; InvalidToken if all fail; rejects on now >= exp
Verify(token, keys, t) ==
    LET byKid == {i \in DOMAIN keys : keys[i].kid = token.header.kid}
        located == IF byKid = {} THEN FALSE
                   ELSE Validates(keys[CHOOSE i \in byKid : \A j \in byKid : i <= j], token)
        valid == located \/ \E i \in DOMAIN keys : Validates(keys[i], token)
    IN IF ~valid THEN TokenResult("InvalidToken", NoTokenClaims)
       ELSE IF t >= parseClaims(token.payload).exp THEN TokenResult("TokenExpired", NoTokenClaims)
       ELSE TokenResult("nil", parseClaims(token.payload))

NoToken == [header |-> [kid |-> ""], payload |-> <<>>, mac |-> <<>>]
\* claims and signedWith: what was signed and with which key, kept for the
\* properties only; at: the time of the Verify
NewSigner == [keys |-> <<SigningKey("k1", "s1")>>, pos |-> "none", token |-> NoToken,
              claims |-> NoTokenClaims, signedWith |-> SigningKey("", ""),
              at |-> 0, result |-> TokenResult("not run", NoTokenClaims)]

\* what the TokenSigner leaves alone
notToken == <<now, cbVars, retryVars, cacheVars, codecVars, hc, hx, chal, rl, vcr, pol, rq>>

TokenSign(claims) ==
    /\ tk.pos = "none"
    /\ tk' = [tk EXCEPT !.pos = "signed", !.token = Sign(claims, tk.keys),
                        !.claims = claims, !.signedWith = tk.keys[1]]
    /\ UNCHANGED notToken

\* rotation: a new active key in front of the list
TokenRotate(kid, secret) ==
    /\ tk.pos # "verified"
    /\ Len(tk.keys) < MaxKeys
    /\ \A i \in DOMAIN tk.keys : tk.keys[i].secret # secret
    /\ tk' = [tk EXCEPT !.keys = <<SigningKey(kid, secret)>> \o @]
    /\ UNCHANGED notToken

\* the oldest legacy key is dropped
TokenRetire ==
    /\ tk.pos # "verified"
    /\ Len(tk.keys) > 1
    /\ tk' = [tk EXCEPT !.keys = SubSeq(@, 1, Len(@) - 1)]
    /\ UNCHANGED notToken

\* the bearer presents the token with another exp in its payload
TokenTamper(exp) ==
    /\ tk.pos = "signed"
    /\ tk.token = Sign(tk.claims, <<tk.signedWith>>)
    /\ exp # tk.claims.exp
    /\ tk' = [tk EXCEPT !.token.payload = jsonClaims([tk.claims EXCEPT !.exp = exp])]
    /\ UNCHANGED notToken

TokenVerify ==
    /\ tk.pos = "signed"
    /\ tk' = [tk EXCEPT !.pos = "verified", !.at = now,
                        !.result = Verify(tk.token, tk.keys, now)]
    /\ UNCHANGED notToken

\* the next token
TokenEnds ==
    /\ tk.pos = "verified"
    /\ tk' = [NewSigner EXCEPT !.keys = tk.keys]
    /\ UNCHANGED notToken

\* -------------------------------------------------------------- PolicyEngine
PathChars == {"/", "a"}
MaxPathLen == 3
MaxPrefixLen == 2
MaxPolicies == 2
Paths == UNION {[1..n -> PathChars] : n \in 0..MaxPathLen}
RoutePrefixes == UNION {[1..n -> PathChars] : n \in 0..MaxPrefixLen}

Policy(id, prefix) == [id |-> id, route_prefix |-> prefix]
\* the sentinel deny-all policy: the id of no stored policy
DenyAll == Policy(0, <<>>)
\* the policies of the store, in the order it lists them: route_prefix is unique
PolicyLists ==
    {ps \in UNION {[1..n -> {Policy(i, p) : i \in 1..MaxPolicies, p \in RoutePrefixes}] :
                       n \in 0..MaxPolicies} :
        /\ \A i \in DOMAIN ps : ps[i].id = i
        /\ \A i, j \in DOMAIN ps : i # j => ps[i].route_prefix # ps[j].route_prefix}

\* a Match that takes the first policy whose route_prefix is a prefix of the path
RECURSIVE MatchFirst(_, _)
MatchFirst(policies, path) ==
    IF policies = <<>> THEN DenyAll
    ELSE IF HasPrefix(path, Head(policies).route_prefix) THEN Head(policies)
    ELSE MatchFirst(Tail(policies), path)

\* the scan of Match: best is the longest match so far, or the sentinel
RECURSIVE MatchFrom(_, _, _)
MatchFrom(policies, path, best) ==
    IF policies = <<>> THEN best
    ELSE LET p == Head(policies)
         IN IF /\ HasPrefix(path, p.route_prefix)
               /\ (best = DenyAll \/ Len(p.route_prefix) > Len(best.route_prefix))
            THEN MatchFrom(Tail(policies), path, p)
            ELSE MatchFrom(Tail(policies), path, best)

\* Match(path): the policy whose route_prefix is the longest prefix of path, or
\* the sentinel
Match(policies, path) == MatchFrom(policies, path, DenyAll)

NotMatched == Policy(-1, <<>>)
NoMatch == [policies |-> <<>>, path |-> <<>>, result |-> NotMatched]

\* what the PolicyEngine leaves alone
notPolicy == <<now, cbVars, retryVars, cacheVars, codecVars, hc, hx, chal, rl, vcr, tk, rq>>

DoMatch ==
    /\ pol.result = NotMatched
    /\ pol' = [pol EXCEPT !.result = Match(pol.policies, pol.path)]
    /\ UNCHANGED notPolicy

\* ------------------------------------------- the two retry functions compared
\* The two functions as functions of their inputs: cfg, the select at which
\* ctx.Done() is taken (cancelAt, counted from 1; 0: never) and the errors the
\* successive calls of fn return. What is observed: the error returned, the
\* number of calls of fn, and the delays of the sleeps before jitter.
Outcomes == {NilErr, Err("fn", TRUE, FALSE, FALSE, "none"), Err("fn", FALSE, TRUE, FALSE, "none")}
OutcomeSeqs == [1 .. MaxAttemptsBound + 1 -> Outcomes]
Run(e, calls, delays) == [err |-> e, calls |-> calls, delays |-> delays]
\* the delay of calculateBackoff before the jitter is added
unjittered(a, cfg) == CHOOSE d \in calculateBackoff(a, [cfg EXCEPT !.Jitter = FALSE]) : TRUE

RECURSIVE backoffLoop(_, _, _, _, _, _, _)
\* the for loop of WithExponentialBackoff from attempt on
backoffLoop(att, last, calls, delays, cfg, cancelAt, outs) ==
    IF ~(att < cfg.MaxAttempts)
    THEN Run(IF last # NilErr THEN last ELSE ErrMaxAttemptsReached, calls, delays)
    ELSE LET slept == IF att > 0 THEN Append(delays, unjittered(att - 1, cfg)) ELSE delays
         IN  IF att > 0 /\ cancelAt = Len(slept)
             THEN Run(CtxErr, calls, slept)
             ELSE LET err == outs[calls + 1]
                  IN  IF err = NilErr THEN Run(NilErr, calls + 1, slept)
                      ELSE IF ~isRetryable(err) THEN Run(err, calls + 1, slept)
                      ELSE backoffLoop(att + 1, err, calls + 1, slept, cfg, cancelAt, outs)

WithExponentialBackoff(cfg, cancelAt, outs) ==
    backoffLoop(0, NilErr, 0, <<>>, cfg, cancelAt, outs)

RECURSIVE backoffContextLoop(_, _, _, _, _, _, _)
\* the for loop of WithExponentialBackoffContext from attempt on; fn is handed ctx
backoffContextLoop(att, last, calls, delays, cfg, cancelAt, outs) ==
    IF ~(att < cfg.MaxAttempts)
    THEN Run(IF last # NilErr THEN last ELSE ErrMaxAttemptsReached, calls, delays)
    ELSE LET slept == IF att > 0 THEN Append(delays, unjittered(att - 1, cfg)) ELSE delays
         IN  IF att > 0 /\ cancelAt = Len(slept)
             THEN Run(CtxErr, calls, slept)
             ELSE LET err == outs[calls + 1]
                  IN  IF err = NilErr THEN Run(NilErr, calls + 1, slept)
                      ELSE IF ~isRetryable(err) THEN Run(err, calls + 1, slept)
                      ELSE backoffContextLoop(att + 1, err, calls + 1, slept, cfg,
                                              cancelAt, outs)

\* the context variant with one attempt more than cfg.MaxAttempts
WithExponentialBackoffContextOneMore(cfg, cancelAt, outs) ==
    backoffContextLoop(0, NilErr, 0, <<>>, [cfg EXCEPT !.MaxAttempts = @ + 1], cancelAt, outs)

WithExponentialBackoffContext(cfg, cancelAt, outs) ==
    backoffContextLoop(0, NilErr, 0, <<>>, cfg, cancelAt, outs)

\* a function not run yet; no input
NotRunYet == Run(NoResult, -1, <<>>)
NoRuns == [cfg |-> [MaxAttempts |-> 0, InitialDelay |-> 0, MaxDelay |-> MaxDelayCfg,
                    Multiplier |-> DefaultMultiplier, Jitter |-> FALSE],
           cancelAt |-> 0, outs |-> <<>>, plain |-> NotRunYet, ctx |-> NotRunYet]

notRetryFn == <<now, cbVars, retryVars, cacheVars, codecVars, hc, hx, chal, rl, vcr, tk, pol>>

DoWithExponentialBackoff ==
    /\ rq.plain = NotRunYet
    /\ rq' = [rq EXCEPT !.plain = WithExponentialBackoff(rq.cfg, rq.cancelAt, rq.outs)]
    /\ UNCHANGED notRetryFn

DoWithExponentialBackoffContext ==
    /\ rq.ctx = NotRunYet
    /\ rq' = [rq EXCEPT !.ctx = WithExponentialBackoffContext(rq.cfg, rq.cancelAt, rq.outs)]
    /\ UNCHANGED notRetryFn

\* the services as constructed, with nothing asked of them; the variables
\* named in but are left to the caller
InitSvcBut(but) ==
    /\ IF "hc" \in but THEN TRUE ELSE hc = NewHealth
    /\ IF "hx" \in but THEN TRUE ELSE hx = NoBody
    /\ IF "chal" \in but THEN TRUE ELSE chal = NoChallenges
    /\ IF "rl" \in but THEN TRUE ELSE rl = NoRate
    /\ IF "vcr" \in but THEN TRUE ELSE vcr = NoCredential
    /\ IF "tk" \in but THEN TRUE ELSE tk = NewSigner
    /\ IF "pol" \in but THEN TRUE ELSE pol = NoMatch
    /\ IF "rq" \in but THEN TRUE ELSE rq = NoRuns

InitSvc == InitSvcBut({})

\* no function applied, no input
InitFun ==
    /\ pk = NoKey
    /\ did = NoString
    /\ encoded = NotEncoded
    /\ decoded = NotRun
    /\ parsed = NotRun
    /\ validated = NotValidated
    /\ InitSvc

InitCalls ==
    /\ cpc = [c \in Callers |-> "idle"]
    /\ fnState = [c \in Callers |-> "none"]
    /\ deadline = [c \in Callers |-> 0]
    /\ ctxCancelled = [c \in Callers |-> FALSE]
    /\ callResult = [c \in Callers |-> "none"]
    /\ recorded = [c \in Callers |-> [fail |-> 0, succ |-> 0]]
    /\ doneBy = [c \in Callers |-> "none"]
    /\ consecFails = 0
    /\ hoSucc = 0
    /\ openedAt = ZeroTime
    /\ probes = 0

InitBreaker ==
    /\ New(CfgBreaker)
    /\ InitCalls

Init ==
    /\ now = 0
    /\ InitBreaker
    /\ InitRetry
    /\ InitCache
    /\ InitFun

NextBreaker ==
    \/ \E c \in Callers : CallAttempt(c)
    \/ \E c \in Callers : FnReturn(c)
    \/ \E c \in Callers : CallErrCh(c)
    \/ \E c \in Callers : CallCtxDone(c)
    \/ \E c \in Callers : CancelCtx(c)
    \/ \E c \in Callers : CallReturned(c)
    \/ Reset
    \/ Tick

SpecBreaker == Init /\ [][NextBreaker]_vars

NextRetry ==
    \/ RetryStart
    \/ RetryLoop
    \/ RetryTimer
    \/ RetryAfter
    \/ RetryCtxDone
    \/ RetryFnReturns
    \/ RetryCancel

SpecRetry == Init /\ [][NextRetry]_vars

\* one client at a time: the operations run to completion one after another,
\* with the clock and the L1 eviction in between
Solo == {"g1"}

NextCache ==
    \/ \E c \in Solo : CacheCall(c)
    \/ \E c \in Solo : GetL1(c)
    \/ \E c \in Solo : GetL2(c)
    \/ \E c \in Solo : GetFill(c)
    \/ \E c \in Solo : Load(c)
    \/ \E c \in Solo : SetL1(c)
    \/ \E c \in Solo : SetL2(c)
    \/ \E c \in Solo : DeleteL1(c)
    \/ \E c \in Solo : DeleteL2(c)
    \/ \E c \in Solo : CacheReturn(c)
    \/ \E k \in Keys : L1Evict(k)
    \/ Tick

SpecCache == Init /\ [][NextCache]_vars

\* the DIDCache, one client at a time
NextDID ==
    \/ \E c \in Solo : DIDCacheCall(c)
    \/ \E c \in Solo : GetL1(c)
    \/ \E c \in Solo : GetL2(c)
    \/ \E c \in Solo : GetFill(c)
    \/ \E c \in Solo : PublicKeySwitch(c)
    \/ \E c \in Solo : SetL1(c)
    \/ \E c \in Solo : SetL2(c)
    \/ \E c \in Solo : DeleteL1(c)
    \/ \E c \in Solo : DeleteL2(c)
    \/ \E c \in Solo : CacheReturn(c)
    \/ \E k \in DIDKeys : L1Evict(k)
    \/ Tick

SpecDID == Init /\ [][NextDID]_vars

\* concurrent GetOrLoad calls of all clients on one cache
NextLoad ==
    \/ \E c \in Clients : GetOrLoadCall(c)
    \/ \E c \in Clients : GetL1(c)
    \/ \E c \in Clients : GetL2(c)
    \/ \E c \in Clients : GetFill(c)
    \/ \E c \in Clients : Load(c)
    \/ \E c \in Clients : SetL1(c)
    \/ \E c \in Clients : SetL2(c)
    \/ \E c \in Clients : CacheReturn(c)
    \/ \E k \in Keys : L1Evict(k)
    \/ Tick

SpecLoad == Init /\ [][NextLoad]_vars

\* concurrent Get, Set and Delete calls of all clients on one cache
NextRace ==
    \/ \E c \in Clients : CacheCall(c)
    \/ \E c \in Clients : GetL1(c)
    \/ \E c \in Clients : GetL2(c)
    \/ \E c \in Clients : GetFill(c)
    \/ \E c \in Clients : Load(c)
    \/ \E c \in Clients : SetL1(c)
    \/ \E c \in Clients : SetL2(c)
    \/ \E c \in Clients : DeleteL1(c)
    \/ \E c \in Clients : DeleteL2(c)
    \/ \E c \in Clients : CacheReturn(c)

SpecRace == Init /\ [][NextRace]_vars

\* ------------------------------------------------ did:web resolver (composition)
\* The resolver's fetch of a did:web document: the circuit breaker (threshold 5,
\* reset 60 s, call ceiling 10 s) around the 3-attempt retry around the fetch.
\* Its source is not part of the tree; the wiring follows the specification.
Resolver == "c1"
WebBreakerConfig == Config(5, 0, 6)
\* retry.DefaultConfig(): 3 attempts, 100 ms, 10 s, 2.0, jitter
DefaultMaxDelay == 400
DefaultConfig ==
    [MaxAttempts |-> 3, InitialDelay |-> DefaultInitialDelay, MaxDelay |-> DefaultMaxDelay,
     Multiplier |-> DefaultMultiplier, Jitter |-> TRUE]

\* Resolve(did): cb.Call(ctx, fn), once the goroutine of the last Call is over
ResolveCall ==
    /\ rpc = "idle"
    /\ CallAttempt(Resolver)

\* fn(callCtx), in the goroutine of Call: the retry around the fetch
ResolveRetryStart ==
    /\ fnState[Resolver] = "running"
    /\ rpc = "idle"
    /\ retryBegins(DefaultConfig, "WithExponentialBackoffContext", callCtxDone(Resolver))
    /\ UNCHANGED <<now, cbVars, funVars, cacheVars>>

\* the fetch of the dead remote: every invocation returns an error
FetchFails ==
    /\ rpc = "fn"
    /\ \E e \in FnErrors : fnReturned(e)

\* callCtx is done (deadline, or cancel() when Call returned): the retry sees it
ResolveCtxDone ==
    /\ callCtxDone(Resolver) \/ cpc[Resolver] = "done"
    /\ RetryCancel

\* the retry returns, and with it fn: errCh <- its error
ResolveFnReturn ==
    /\ fnState[Resolver] = "running"
    /\ rpc = "done"
    /\ fnState' = [fnState EXCEPT ![Resolver] = IF rResult = NilErr THEN "nil" ELSE "err"]
    /\ rpc' = "idle"
    /\ UNCHANGED <<now, breakerVars, cpc, deadline, ctxCancelled, callResult, histVars>>
    /\ UNCHANGED <<variant, rcfg, attempt, lastErr, rctxDone, delay, timerFired, rResult,
                   invocations, sleeps, fnOut, cacheVars, funVars>>

InitResolve ==
    /\ now = 0
    /\ New(WebBreakerConfig)
    /\ InitCalls
    /\ InitRetry
    /\ InitCache
    /\ InitFun

NextResolve ==
    \/ ResolveCall
    \/ ResolveRetryStart
    \/ RetryLoop
    \/ RetryTimer
    \/ RetryAfter
    \/ RetryCtxDone
    \/ FetchFails
    \/ ResolveCtxDone
    \/ ResolveFnReturn
    \/ CallErrCh(Resolver)
    \/ CallCtxDone(Resolver)
    \/ CallReturned(Resolver)
    \/ Tick

SpecResolve == InitResolve /\ [][NextResolve]_vars

\* the did:key codec on a key or on a string
InitDidKey ==
    /\ now = 0
    /\ InitBreaker
    /\ InitRetry
    /\ InitCache
    /\ \/ pk \in TestKeys /\ did = NoString
       \/ pk = NoKey /\ did \in DidKeyStrings
    /\ encoded = NotEncoded
    /\ decoded = NotRun
    /\ parsed = NotRun
    /\ validated = NotValidated
    /\ InitSvc

NextDidKey ==
    \/ DoEncode
    \/ DoDecode
    \/ DoDecodeString

SpecDidKey == InitDidKey /\ [][NextDidKey]_vars

\* ValidateDID on a string
InitValidate ==
    /\ now = 0
    /\ InitBreaker
    /\ InitRetry
    /\ InitCache
    /\ pk = NoKey
    /\ did \in ValidateStrings
    /\ encoded = NotEncoded
    /\ decoded = NotRun
    /\ parsed = NotRun
    /\ validated = NotValidated
    /\ InitSvc

NextValidate == DoValidate

SpecValidate == InitValidate /\ [][NextValidate]_vars

\* health: Register and readiness probes, one after the other
NextHealth ==
    \/ \E n \in CheckerNames : HealthRegister(n)
    \/ ReadinessStart
    \/ \E idx \in 1..MaxCheckers, err \in CheckErrors : CheckerReturns(idx, err)
    \/ ReadinessAnswer
    \/ ReadinessEnds

SpecHealth == Init /\ [][NextHealth]_vars

\* DecodeJSON on a request body
InitDecodeJSON ==
    /\ now = 0
    /\ InitBreaker
    /\ InitRetry
    /\ InitCache
    /\ pk = NoKey
    /\ did = NoString
    /\ encoded = NotEncoded
    /\ decoded = NotRun
    /\ parsed = NotRun
    /\ validated = NotValidated
    /\ InitSvcBut({"hx"})
    /\ hx \in {[body |-> b, err |-> "not run"] : b \in Bodies}

NextDecodeJSON == DoDecodeJSON

SpecDecodeJSON == InitDecodeJSON /\ [][NextDecodeJSON]_vars

\* challenges: issue, concurrent consumes, expiry
NextChallenge ==
    \/ \E n \in Nonces, d \in Holders : IssueChallenge(n, d)
    \/ \E n \in Nonces : ChallengeTTL(n)
    \/ \E v \in Verifiers, n \in Nonces, d \in Holders : ConsumePop(v, n, d)
    \/ \E v \in Verifiers : ConsumeCheck(v)
    \/ Tick

SpecChallenge == Init /\ [][NextChallenge]_vars

\* the rate limiter of one key, asked by every replica
NextRate ==
    \/ \E r \in Replicas : RateIncr(r)
    \/ \E r \in Replicas : RateSetTTL(r)
    \/ \E r \in Replicas : RateDecide(r)
    \/ Tick

SpecRate == Init /\ [][NextRate]_vars

\* VerifyCredential on a credential, at some time
InitVerify ==
    /\ now \in 0..MaxTime
    /\ InitBreaker
    /\ InitRetry
    /\ InitCache
    /\ pk = NoKey
    /\ did = NoString
    /\ encoded = NotEncoded
    /\ decoded = NotRun
    /\ parsed = NotRun
    /\ validated = NotValidated
    /\ InitSvcBut({"vcr"})
    /\ vcr \in {[jwt |-> j, expectedSubject |-> s, result |-> Verified("not run", NoClaims)] :
                   j \in Credentials, s \in Holders}

NextVerify == DoVerifyCredential

SpecVerify == InitVerify /\ [][NextVerify]_vars

\* tokens: sign, rotate the keys, verify
NextToken ==
    \/ \E c \in ClaimSets : TokenSign(c)
    \/ \E kid \in Kids, secret \in Secrets : TokenRotate(kid, secret)
    \/ TokenRetire
    \/ \E exp \in 1..MaxTime : TokenTamper(exp)
    \/ TokenVerify
    \/ TokenEnds
    \/ Tick

SpecToken == Init /\ [][NextToken]_vars

\* Match on a path, over some policies
InitMatch ==
    /\ now = 0
    /\ InitBreaker
    /\ InitRetry
    /\ InitCache
    /\ pk = NoKey
    /\ did = NoString
    /\ encoded = NotEncoded
    /\ decoded = NotRun
    /\ parsed = NotRun
    /\ validated = NotValidated
    /\ InitSvcBut({"pol"})
    /\ pol \in {[policies |-> ps, path |-> p, result |-> NotMatched] :
                   ps \in PolicyLists, p \in Paths}

NextMatch == DoMatch

SpecMatch == InitMatch /\ [][NextMatch]_vars

\* the two retry functions on every Config, cancellation point and sequence of
\* fn outcomes
InitRetryFn ==
    /\ now = 0
    /\ InitBreaker
    /\ InitRetry
    /\ InitCache
    /\ pk = NoKey
    /\ did = NoString
    /\ encoded = NotEncoded
    /\ decoded = NotRun
    /\ parsed = NotRun
    /\ validated = NotValidated
    /\ InitSvcBut({"rq"})
    /\ rq \in {[NoRuns EXCEPT !.cfg = cfg, !.cancelAt = k, !.outs = outs] :
                  cfg \in RetryConfigs, k \in 0 .. MaxAttemptsBound, outs \in OutcomeSeqs}

NextRetryFn ==
    \/ DoWithExponentialBackoff
    \/ DoWithExponentialBackoffContext

SpecRetryFn == InitRetryFn /\ [][NextRetryFn]_vars

\* ------------------------------------------------ CircuitBreaker: properties
\* a step in which caller c enters Call (canAttempt runs)
Attempts(c) == cpc[c] = "idle" /\ cpc'[c] # "idle"
Admitted(c) == cpc'[c] = "select" /\ fnState'[c] = "running"
Rejected(c) == cpc'[c] = "done" /\ callResult'[c] = "ErrCircuitOpen" /\ fnState'[c] = "none"
\* a step in which the Call of caller c records a failure / a success
RecordsFailure(c) == recorded'[c].fail = recorded[c].fail + 1
RecordsSuccess(c) == recorded'[c].succ = recorded[c].succ + 1

\* C1: once max_failures failures have been recorded in a row (no success and no
\* Reset in between), a Call made while now - lastFailTime <= reset_timeout
\* returns ErrCircuitOpen and does not invoke fn.
C1_OpenAfterMaxFailures ==
    [][\A c \in Callers :
        (Attempts(c) /\ consecFails >= maxFailures /\ Since(lastFailTime) <= resetTimeout)
            => Rejected(c)]_vars

C1_Witness ==
    \E c \in Callers :
        /\ cpc[c] = "done" /\ callResult[c] = "ErrCircuitOpen" /\ fnState[c] = "none"
        /\ consecFails >= maxFailures
        /\ Since(lastFailTime) <= resetTimeout

C4_Open ==
    [][\A c \in Callers :
        (state = StateOpen /\ Attempts(c)) =>
            /\ Rejected(c) <=> Since(lastFailTime) <= resetTimeout
            /\ Rejected(c) => state' = StateOpen
            /\ ~Rejected(c) =>
                (Admitted(c) /\ state' = StateHalfOpen /\ successes' = 0)]_vars

C4_Witness ==
    /\ state = StateHalfOpen
    /\ successes = 0
    /\ hoSucc = 0
    /\ Since(lastFailTime) = resetTimeout + 1
    /\ \E c \in Callers : cpc[c] = "select" /\ fnState[c] = "running"

\* C28 as claimed: a Call attempted more than reset_timeout after the transition
\* to Open is admitted
C28_RecoveryFromOpening ==
    [][\A c \in Callers :
        (state = StateOpen /\ Attempts(c) /\ now - openedAt > resetTimeout)
            => Admitted(c)]_vars

\* C28, amended: a Call attempted while Open more than reset_timeout after the
\* last failure the breaker recorded is admitted, and that failure is never
\* earlier than the transition to Open
C28_RecoveryFromLastFailure ==
    [][/\ \A c \in Callers :
            (state = StateOpen /\ Attempts(c) /\ now - lastFailTime > resetTimeout)
                => Admitted(c)
       /\ state' = StateOpen => openedAt' <= lastFailTime']_vars

C28_Witness ==
    /\ state = StateHalfOpen
    /\ openedAt # ZeroTime
    /\ lastFailTime > openedAt
    /\ now - lastFailTime = resetTimeout + 1
    /\ hoSucc = 0
    /\ \E c \in Callers : cpc[c] = "select" /\ fnState[c] = "running" /\ deadline[c] = now + timeout

\* C31: in HalfOpen the number of calls admitted with no outcome recorded yet
\* stays below the number of concurrent callers
C31_ProbesLimited ==
    state = StateHalfOpen => probes < Cardinality(Callers)

\* C35 as claimed: Closed implies failures < max_failures, and the success
\* counter is non-zero only in HalfOpen
C35_CountersByState ==
    /\ state = StateClosed => failures < maxFailures
    /\ successes # 0 => state = StateHalfOpen

\* C35, amended: Closed implies failures < max_failures and successes = 0; the
\* success counter stays below 3 and is non-zero only in HalfOpen or in the Open
\* state a failure in HalfOpen led to
C35_CountersClosed ==
    /\ state = StateClosed => (failures < maxFailures /\ successes = 0)
    /\ successes \in 0 .. HalfOpenSuccesses - 1
    /\ successes # 0 => state \in {StateHalfOpen, StateOpen}

\* a success and then a failure were recorded in HalfOpen: the breaker is Open
\* with the success still counted
C35_Witness ==
    /\ state = StateOpen
    /\ successes = 1
    /\ failures = 0
    /\ \E c \in Callers : cpc[c] = "done" /\ callResult[c] \in {"err", "ErrTimeout"}

\* C5: in Closed every call is admitted, a recorded failure increments failures,
\* a recorded success sets failures to 0, the breaker opens exactly when the
\* counter reaches max_failures, and it never opens with fewer than
\* max_failures failures recorded since the last success.
C5_Closed ==
    [][\A c \in Callers :
        /\ (state = StateClosed /\ Attempts(c)) => (Admitted(c) /\ state' = StateClosed)
        /\ (state = StateClosed /\ RecordsFailure(c)) =>
              /\ failures' = failures + 1
              /\ state' = StateOpen <=> failures' >= maxFailures
              /\ state' \in {StateOpen, StateClosed}
        /\ (state = StateClosed /\ RecordsSuccess(c)) =>
              (failures' = 0 /\ state' = StateClosed)
        /\ (state = StateClosed /\ state' = StateOpen) => consecFails' >= maxFailures]_vars

C5_Witness ==
    /\ state = StateOpen
    /\ failures = maxFailures
    /\ consecFails = maxFailures
    /\ \E c \in Callers : cpc[c] = "done" /\ callResult[c] = "err"

\* C6: a Call whose fn has not returned when call_timeout has elapsed returns
\* ErrTimeout and has recorded exactly one failure and no success; the later
\* return of fn changes neither the breaker nor what the Call recorded.
C6_Timeout ==
    [][\A c \in Callers :
        /\ (cpc[c] = "select" /\ fnState[c] = "running" /\ now >= deadline[c]
               /\ cpc'[c] = "done")
              => (callResult'[c] = "ErrTimeout"
                    /\ recorded'[c] = [fail |-> 1, succ |-> 0])
        /\ (cpc[c] = "done" /\ fnState[c] = "running" /\ fnState'[c] # "running")
              => UNCHANGED <<breakerVars, recorded, callResult, cpc>>
        /\ callResult[c] = "ErrTimeout" => recorded[c] = [fail |-> 1, succ |-> 0]]_vars

C6_Witness ==
    \E c \in Callers :
        /\ cpc[c] = "done" /\ callResult[c] = "ErrTimeout" /\ doneBy[c] = "deadline"
        /\ fnState[c] \in {"nil", "err"}
        /\ recorded[c] = [fail |-> 1, succ |-> 0]

\* C7: a Call whose ctx is cancelled while it is in flight, before call_timeout
\* has elapsed, does not return the timeout error ErrTimeout.
C7_CancelIsNotTimeout ==
    [][\A c \in Callers :
        (cpc[c] = "select" /\ ctxCancelled[c] /\ now < deadline[c] /\ cpc'[c] = "done")
            => callResult'[c] # "ErrTimeout"]_vars

\* ----------------------------------------------------------- retry: properties
\* a run of the function is under way
Retrying == rpc \in {"loop", "sleep", "fn"}

\* C8: once ctx is done, the run makes no further invocation of fn (whenever the
\* cancellation happens, before the first attempt included).
C8_NoInvocationOnceCancelled ==
    [][(Retrying /\ rctxDone) => invocations' = invocations]_vars

\* C9: when fn returns an error classified non-retryable, the function returns
\* that same error at once: no sleep and no invocation of fn follows.
C9_NonRetryableAborts ==
    (fnOut # NilErr /\ ~isRetryable(fnOut)) =>
        /\ rpc = "done"
        /\ rResult = fnOut
        /\ sleeps = invocations - 1

C9_Witness ==
    /\ rpc = "done"
    /\ rcfg.MaxAttempts = 3
    /\ invocations = 2
    /\ fnOut # NilErr /\ ~isRetryable(fnOut)
    /\ rResult = fnOut

\* C10: fn is invoked at most MaxAttempts times; the first nil result ends the
\* run with nil; when all MaxAttempts invocations failed the error of the last
\* one is returned; ErrMaxAttemptsReached is returned only when fn was never
\* invoked, which needs MaxAttempts <= 0.
C10_BoundAndResult ==
    /\ invocations <= (IF rcfg.MaxAttempts > 0 THEN rcfg.MaxAttempts ELSE 0)
    /\ (invocations > 0 /\ rpc # "fn" /\ fnOut = NilErr) =>
            (rpc = "done" /\ rResult = NilErr)
    /\ (rpc = "done" /\ invocations > 0 /\ invocations = rcfg.MaxAttempts /\ fnOut # NilErr)
            => rResult = fnOut
    /\ rResult = ErrMaxAttemptsReached => (invocations = 0 /\ rcfg.MaxAttempts <= 0)

C10_Witness ==
    /\ rpc = "done"
    /\ rcfg.MaxAttempts >= 2
    /\ invocations = rcfg.MaxAttempts
    /\ fnOut # NilErr /\ isRetryable(fnOut)
    /\ rResult = fnOut
    /\ sleeps = invocations - 1

\* the un-jittered delay before attempt i (the loop index, i > 0) as the spec gives it
BaseDelay(i, cfg) ==
    LET raw == cfg.InitialDelay * Pow(cfg.Multiplier, i - 1)
    IN IF raw < cfg.MaxDelay THEN raw ELSE cfg.MaxDelay
\* the sleep before the current attempt follows the schedule: the base delay
\* without jitter, and with jitter a duration (a whole number of units) of
\* 0.75 to 1.25 times the base delay
SleepOnSchedule ==
    (variant = "WithExponentialBackoff" /\ rpc = "sleep") =>
        /\ attempt > 0
        /\ IF rcfg.Jitter
           THEN /\ 4 * (delay + 1) > 3 * BaseDelay(attempt, rcfg)
                /\ 4 * delay <= 5 * BaseDelay(attempt, rcfg)
           ELSE delay = BaseDelay(attempt, rcfg)
NoSleepBeforeFirst ==
    (variant = "WithExponentialBackoff" /\ rpc # "idle" /\ invocations = 0) => sleeps = 0

\* C29 as claimed: no sleep before the first invocation, the sleep before attempt
\* i follows the schedule, and the un-jittered delay is non-decreasing in i and
\* never exceeds MaxDelay
C29_Schedule ==
    /\ NoSleepBeforeFirst
    /\ SleepOnSchedule
    /\ rpc # "idle" =>
           \A i \in 1..MaxAttemptsBound :
               /\ BaseDelay(i, rcfg) <= BaseDelay(i + 1, rcfg)
               /\ BaseDelay(i, rcfg) <= rcfg.MaxDelay

\* C29, amended: the un-jittered delay never exceeds MaxDelay, and it is
\* non-decreasing in i when Multiplier >= 1
C29_ScheduleMultiplierAtLeastOne ==
    /\ NoSleepBeforeFirst
    /\ SleepOnSchedule
    /\ rpc # "idle" =>
           \A i \in 1..MaxAttemptsBound :
               /\ rcfg.Multiplier >= 1 => BaseDelay(i, rcfg) <= BaseDelay(i + 1, rcfg)
               /\ BaseDelay(i, rcfg) <= rcfg.MaxDelay

C29_Witness ==
    /\ variant = "WithExponentialBackoff"
    /\ rpc = "sleep"
    /\ attempt = 2
    /\ rcfg.Multiplier = DefaultMultiplier
    /\ rcfg.InitialDelay = DefaultInitialDelay
    /\ rcfg.Jitter
    /\ delay = MaxDelayCfg + 1
    /\ sleeps = 2
    /\ invocations = 2

\* C11: the error fn returned is retried (the loop goes on to the next attempt)
\* exactly when: it wraps no NonRetryableError, and it wraps a RetryableError, or
\* is deadline-exceeded, or has a Temporary() predicate that answers true, or
\* has none of these marks. Deadline-exceeded without an explicit mark is
\* always retried.
C11_Classification ==
    [][(rpc = "fn" /\ rpc' # "fn" /\ fnOut' # NilErr) =>
        /\ (rpc' = "loop") <=>
              (CASE fnOut'.nonRetryable -> FALSE
                 [] ~fnOut'.nonRetryable /\ fnOut'.retryable -> TRUE
                 [] ~fnOut'.nonRetryable /\ ~fnOut'.retryable /\ fnOut'.deadline -> TRUE
                 [] ~fnOut'.nonRetryable /\ ~fnOut'.retryable /\ ~fnOut'.deadline
                        /\ fnOut'.temporary # "none" -> fnOut'.temporary = "true"
                 [] OTHER -> TRUE)
        /\ (rpc' # "loop") => (rpc' = "done" /\ rResult' = fnOut')
        /\ (fnOut'.deadline /\ ~fnOut'.nonRetryable) => rpc' = "loop"]_vars

C11_Witness ==
    /\ rpc = "loop"
    /\ attempt = 1
    /\ fnOut.deadline /\ fnOut.temporary = "false"
    /\ ~fnOut.nonRetryable /\ ~fnOut.retryable
    /\ lastErr = fnOut

\* ------------------------------------------------------- resolver: properties
\* C12: with the breaker at max_failures 5 around the 3-attempt retry around a
\* fetch that always fails, each of the first five Resolve calls is admitted and
\* returns a failure, never ErrCircuitOpen; the call after the fifth failure
\* (made within reset_timeout of it) returns ErrCircuitOpen, and no fetch is
\* invoked and no backoff sleep begun on its behalf.
C12_SixthResolveIsCircuitOpen ==
    [][/\ maxFailures = 5 /\ rcfg.MaxAttempts \in {0, 3}
       /\ (Attempts(Resolver) /\ consecFails < 5) => Admitted(Resolver)
       /\ (cpc[Resolver] = "select" /\ cpc'[Resolver] = "done") =>
              /\ callResult'[Resolver] \in {"err", "ErrTimeout"}
              /\ RecordsFailure(Resolver)
       /\ (Attempts(Resolver) /\ consecFails = 5 /\ Since(lastFailTime) <= resetTimeout) =>
              /\ Rejected(Resolver)
              /\ UNCHANGED <<rpc, invocations, sleeps>>
       /\ callResult[Resolver] = "ErrCircuitOpen" =>
              (rpc = "idle" /\ UNCHANGED <<rpc, invocations, sleeps>>)]_vars

C12_Witness ==
    /\ cpc[Resolver] = "done"
    /\ callResult[Resolver] = "ErrCircuitOpen"
    /\ state = StateOpen
    /\ failures = 5
    /\ consecFails = 5
    /\ rpc = "idle"
    /\ invocations = 3

\* C38: for the same Config, the same select taking ctx.Done() and the same
\* sequence of fn outcomes, WithExponentialBackoff and
\* WithExponentialBackoffContext call fn the same number of times, sleep the
\* same delays before jitter and return the same error
C38_SameRun ==
    (rq.plain # NotRunYet /\ rq.ctx # NotRunYet) =>
        /\ rq.plain.calls = rq.ctx.calls
        /\ rq.plain.delays = rq.ctx.delays
        /\ rq.plain.err = rq.ctx.err

\* both have run three attempts with two sleeps, the second one capped
C38_Witness ==
    /\ rq.plain # NotRunYet
    /\ rq.ctx # NotRunYet
    /\ rq.ctx.calls = 3
    /\ rq.ctx.delays = <<DefaultInitialDelay, rq.cfg.MaxDelay>>
    /\ rq.ctx.err \in FnErrors
    /\ rq.ctx = rq.plain

\* ----------------------------------------------------------- cache: properties
\* C2: Get (or GetOrLoad) never returns a cached value after the ttl of the Set
\* that stored it has run out, whichever layer serves the read.
C2_StalenessBound ==
    \A c \in Clients :
        (cli[c].pos = "done" /\ cli[c].res.kind = "hit") => ~cli[c].res.late

\* C13: Get returns the L1 value when L1 holds the key, and then does not go on
\* to L2; on an L1 miss it reads L2; on an L2 hit it returns the L2 value and
\* stores that value in L1 with a TTL of at most one hour; when neither layer
\* holds the key it returns ErrCacheMiss and writes nothing.
C13_ReadPath ==
    [][\A c \in Clients : LET k == cli[c].key IN
        /\ (at(c, "l1get") /\ cli'[c] # cli[c]) =>
              IF l1Get(k) # {}
              THEN /\ cli'[c].pos = "done" /\ cli'[c].res.kind = "hit"
                   /\ cli'[c].res.val \in {e.val : e \in l1Get(k)}
                   /\ UNCHANGED <<l1, l2>>
              ELSE cli'[c].pos = "l2get" /\ UNCHANGED <<l1, l2>>
        /\ (at(c, "l2get") /\ cli'[c].pos = "fill") =>
              /\ cli'[c].res.kind = "hit"
              /\ cli'[c].res.val \in {e.val : e \in l2Get(k)}
              /\ UNCHANGED <<l1, l2>>
        /\ (at(c, "fill") /\ cli'[c] # cli[c]) =>
              /\ cli'[c].pos = "done" /\ cli'[c].res = cli[c].res
              /\ \E e \in l1'[k] : /\ l1'[k] = {e}
                                   /\ e.val = cli[c].res.val
                                   /\ e.exp - now <= Hour
              /\ UNCHANGED l2
        /\ (at(c, "l2get") /\ cli[c].op = "Get" /\ l2Get(k) = {} /\ cli'[c] # cli[c]) =>
              /\ cli'[c].pos = "done" /\ cli'[c].res.kind = "miss"
              /\ UNCHANGED <<l1, l2>>]_vars

C13_Witness ==
    \E c \in Clients :
        /\ cli[c].op = "Get" /\ cli[c].pos = "done" /\ cli[c].res.kind = "hit"
        /\ \E e \in l1[cli[c].key] : e.val = cli[c].res.val /\ e.exp = now + Hour
        /\ l2Get(cli[c].key) # {}

C15_GetOrLoad ==
    [][\A c \in Clients : LET k == cli[c].key IN (cli[c].op = "GetOrLoad" /\ cli'[c] # cli[c]) =>
        /\ cli'[c].loads <= 1
        /\ (cli'[c].pos = "done" /\ cli'[c].res.kind = "hit") => cli'[c].loads = 0
        /\ (at(c, "l2get") /\ cli'[c].pos # "fill") => cli'[c].pos = "load"
        /\ at(c, "load") => 
              /\ cli'[c].loads = cli[c].loads + 1
              /\ cli'[c].pos = "l1set" \/ (cli'[c].pos = "done" /\ cli'[c].res.kind = "err")
              /\ UNCHANGED <<l1, l2>>
        /\ at(c, "l1set") =>
              /\ cli[c].loads = 1
              /\ l1'[k] = {Entry(cli[c].val, now + cli[c].ttl, now + cli[c].ttl)}
        /\ at(c, "l2set") =>
              /\ cli'[c].pos = "done"
              /\ cli'[c].res.kind = "loaded" /\ cli'[c].res.val = cli[c].val
              /\ cli[c].val \in Values
              /\ l2' # l2 => l2'[k] = {Entry(jsonMarshal(cli[c].val), now + cli[c].ttl,
                                             now + cli[c].ttl)}
        /\ cli'[c].pos = "idle" =>
              /\ cli[c].res.kind \in {"hit", "loaded", "err"}
              /\ cli[c].res.kind = "loaded" <=> (cli[c].loads = 1 /\ cli[c].val # NoVal)]_vars

\* two concurrent calls on the same key have missed and each has invoked loader
C15_Witness ==
    /\ \A c \in Clients :
          /\ cli[c].op = "GetOrLoad" /\ cli[c].pos = "done"
          /\ cli[c].res.kind = "loaded" /\ cli[c].loads = 1
    /\ \E c, d \in Clients : c # d /\ cli[c].key = cli[d].key /\ cli[c].val # cli[d].val

\* C32: a GetOrLoad whose loader returns an error returns an error and has
\* written nothing to L1 or L2: it reaches loader only through the two misses,
\* which write nothing, and returns straight from the failed loader call; a
\* GetOrLoad whose loader succeeded returns the loaded value with a nil error
\* whether or not the L2 write of Set went through.
C32_LoaderErrorSetError ==
    [][\A c \in Clients : (cli[c].op = "GetOrLoad" /\ cli'[c] # cli[c]) =>
        /\ (l1' # l1 \/ l2' # l2) => cli[c].pos \in {"fill", "l1set", "l2set"}
        /\ at(c, "load") => (cli[c].got = {} /\ cli[c].val = NoVal /\ cli[c].loads = 0)
        /\ (cli'[c].res.kind = "err" /\ cli[c].res.kind # "err") =>
              /\ at(c, "load")
              /\ cli'[c].pos = "done"
              /\ cli'[c].res.val = NoVal
              /\ UNCHANGED <<l1, l2>>
        /\ at(c, "l2set") =>
              /\ cli'[c].pos = "done"
              /\ cli'[c].res = Res("loaded", cli[c].val, FALSE)
              /\ cli[c].val \in Values]_vars

\* one GetOrLoad has returned the loader's error; another one has returned its
\* loaded value although the L2 write failed: L1 holds the value, L2 nothing
C32_Witness ==
    \E c, d \in Clients :
        /\ cli[c].op = "GetOrLoad" /\ cli[c].pos = "done" /\ cli[c].res.kind = "err"
        /\ cli[d].op = "GetOrLoad" /\ cli[d].pos = "done" /\ cli[d].res.kind = "loaded"
        /\ cli[d].res.val \in Values
        /\ l2[cli[d].key] = {}
        /\ \E e \in l1[cli[d].key] : e.val = cli[d].res.val

\* C36: the L2 read of Get ends in one of two ways, whether Redis answered or
\* failed: a hit with the value L2 holds, or a miss, which Get returns as
\* ErrCacheMiss and which sends GetOrLoad on to its loader; Get returns a value
\* with a nil error or ErrCacheMiss with no value, and nothing else
C36_L2ErrorIsMiss ==
    [][\A c \in Clients : (cli[c].op \in {"Get", "GetOrLoad"} /\ cli'[c] # cli[c]) =>
        /\ at(c, "l2get") =>
              \/ /\ cli'[c].pos = "fill"
                 /\ cli'[c].res.kind = "hit"
                 /\ cli'[c].res.val \in {e.val : e \in l2Get(cli[c].key)}
              \/ /\ cli[c].op = "Get"
                 /\ cli'[c].pos = "done"
                 /\ cli'[c].res = Res("miss", NoVal, FALSE)
              \/ /\ cli[c].op = "GetOrLoad"
                 /\ cli'[c].pos = "load"
                 /\ cli'[c].res = NoRes
        /\ (cli[c].op = "Get" /\ cli'[c].pos = "done") =>
              /\ cli'[c].res.kind \in {"hit", "miss"}
              /\ cli'[c].res.kind = "hit" <=> cli'[c].res.val # NoVal]_vars

\* L2 holds a live entry for the key and the L2 read failed: the Get inside the
\* only GetOrLoad under way has missed and loader comes next
C36_Witness ==
    \E c \in Solo :
        /\ cli[c].op = "GetOrLoad"
        /\ cli[c].pos = "load"
        /\ l1Get(cli[c].key) = {}
        /\ l2Get(cli[c].key) # {}

\* C37: Set writes v to L1 before it writes L2; when the L2 write fails, Set
\* returns the error and L1 keeps what it holds, v included; and a Get that
\* finds v in L1 returns v without reading L2, also when L2 holds nothing for
\* the key
C37_SetNotAtomic ==
    [][\A c \in Clients : LET k == cli[c].key IN (cli'[c] # cli[c]) =>
        /\ (cli[c].op = "Set" /\ at(c, "l1set")) =>
              /\ l1'[k] = {Entry(cli[c].val, now + cli[c].ttl, now + cli[c].ttl)}
              /\ cli'[c].pos = "l2set"
              /\ UNCHANGED l2
        /\ (cli[c].op = "Set" /\ at(c, "l2set")) =>
              /\ cli'[c].pos = "done"
              /\ UNCHANGED l1
              /\ cli'[c].res.kind = "err" => UNCHANGED l2
              /\ cli'[c].res.kind = "ok" =>
                    l2'[k] = {Entry(jsonMarshal(cli[c].val), now + cli[c].ttl,
                                    now + cli[c].ttl)}
        /\ (cli[c].op = "Get" /\ at(c, "l1get") /\ l1Get(k) # {}) =>
              /\ cli'[c].pos = "done"
              /\ cli'[c].res.kind = "hit"
              /\ cli'[c].res.val \in {e.val : e \in l1Get(k)}
              /\ UNCHANGED <<l1, l2>>]_vars

\* the only client's Set failed at L2, which holds nothing for the key, and its
\* next Get has returned the value from L1
C37_Witness ==
    \E c \in Solo :
        /\ cli[c].op = "Get"
        /\ cli[c].pos = "done"
        /\ cli[c].res.kind = "hit"
        /\ cli[c].res.val \in Values
        /\ l2[cli[c].key] = {}
        /\ \E e \in l1Get(cli[c].key) : e.val = cli[c].res.val

\* C30: once Delete(key) has returned nil and no Set of the key wrote since,
\* every Get of the key that begins afterwards returns ErrCacheMiss
C30_DeleteNotUndone ==
    \A c \in Clients :
        (/\ cli[c].op = "Get"
         /\ cli[c].pos = "done"
         /\ cli[c].after
         /\ deleted[cli[c].key] = "yes")
        => cli[c].res.kind = "miss"

\* C16: a GetPublicKey that the cache serves within the ttl of the SetPublicKey
\* that stored the key returns that key, whichever layer serves it.
C16_ServesStoredKey ==
    \A c \in Clients :
        (cli[c].op = "GetPublicKey" /\ cli[c].pos = "done" /\ cli[c].res.val # NoVal
            /\ ~cli[c].res.late)
        => (cli[c].res.kind = "hit" /\ cli[c].res.val \in PublicKeys)

\* ------------------------------------------------------ did:key: properties
\* C17: for every 32-byte public key pk, EncodeDidKey(pk) is "did:key:z" followed
\* by the base58btc text of 0xed 0x01 || pk, and DecodeDidKey of it returns pk
\* and no error.
C17_RoundTrip ==
    /\ encoded # NotEncoded =>
          /\ HasPrefix(encoded, DidKeyPrefix)
          /\ LET body == SubSeq(encoded, Len(DidKeyPrefix) + 1, Len(encoded)) IN
                /\ \A i \in 1 .. Len(body) : b58Value(body[i]) >= 0
                /\ Number58(body, <<>>) = <<237, 1>> \o pk
    /\ decoded # NotRun => (decoded.err = "" /\ decoded.key = pk)

C17_Witness ==
    /\ Len(pk) = 32
    /\ pk[1] = 0 /\ pk[32] = 255
    /\ decoded.err = "" /\ decoded.key = pk

\* C18: DecodeDidKey returns an error and no key for a string that does not
\* start with "did:key:z", and for one whose text after that prefix is not the
\* base58 text of exactly 0xed 0x01 followed by 32 key bytes (fewer bytes, more
\* bytes, another prefix, a character that is no base58 digit).
C18_RejectsMalformed ==
    parsed # NotRun =>
        LET m == did.made
            wellFormed == /\ m.prefix = DidKeyPrefix
                          /\ m.bad = "no"
                          /\ Len(m.bytes) = 2 + 32
                          /\ m.bytes[1] = 237 /\ m.bytes[2] = 1
        IN  /\ (~HasPrefix(did.s, DidKeyPrefix) \/ (m.prefix = DidKeyPrefix /\ ~wellFormed))
                  => (parsed.err # "" /\ parsed.key = <<>>)
            /\ wellFormed => (parsed.err = "" /\ parsed.key = SubSeq(m.bytes, 3, 34))

\* a string of the right prefix whose bytes are one too many has been rejected
C18_Witness ==
    /\ parsed # NotRun
    /\ did.made.prefix = DidKeyPrefix /\ did.made.bad = "no"
    /\ Len(did.made.bytes) = 35
    /\ did.made.bytes[1] = 237 /\ did.made.bytes[2] = 1
    /\ parsed.err = "invalid public key size" /\ parsed.key = <<>>

\* -------------------------------------------------- ValidateDID: properties
\* the string is "did:" method ":" id with a non-empty method of [a-z0-9] and a
\* non-empty id of [a-zA-Z0-9._%-]
MatchesPattern(m) ==
    /\ m.scheme = <<"d", "i", "d">>
    /\ m.method # <<>> /\ AllIn(m.method, MethodChars)
    /\ m.id # <<>> /\ AllIn(m.id, IdChars)
MethodSupported(m) == m.method \in {MethodKey, MethodWeb, MethodIon}

\* C19 as stated: ValidateDID accepts a string exactly when it matches the
\* pattern and its method is key, web or ion; it answers a string that does not
\* match with the invalid-DID-format error and a matching string of another
\* method with the unsupported-method error.
C19_AcceptsExactlyPattern ==
    validated # NotValidated =>
        LET m == did.made IN
        /\ validated.err = "nil" <=> (MatchesPattern(m) /\ MethodSupported(m))
        /\ ~MatchesPattern(m) => validated.err = "ErrInvalidDID"
        /\ (MatchesPattern(m) /\ ~MethodSupported(m)) => validated.err = "ErrInvalidDIDMethod"

\* C19 amended: ValidateDID accepts a string exactly when it matches the
\* pattern, its method is key, web or ion, a did:key id starts with "z" and a
\* did:web id has at least 3 characters; a string that does not match, a did:key
\* id without "z" and a did:web id under 3 characters get the invalid-DID-format
\* error, a matching string of another method the unsupported-method error.
C19_AcceptsPatternAndMethodRules ==
    validated # NotValidated =>
        LET m == did.made
            methodRule == /\ m.method = MethodKey => Head(m.id) = "z"
                          /\ m.method = MethodWeb => Len(m.id) >= 3
        IN
        /\ validated.err = "nil" <=> (MatchesPattern(m) /\ MethodSupported(m) /\ methodRule)
        /\ ~MatchesPattern(m) => validated.err = "ErrInvalidDID"
        /\ (MatchesPattern(m) /\ ~MethodSupported(m)) => validated.err = "ErrInvalidDIDMethod"
        /\ (MatchesPattern(m) /\ MethodSupported(m) /\ ~methodRule)
              => validated.err = "ErrInvalidDID"

\* a did:web id of exactly three characters has been accepted
C19_Witness ==
    /\ validated.err = "nil"
    /\ did.made.method = MethodWeb
    /\ Len(did.made.id) = 3

\* C20: a did:web DID whose id is a host followed by colon-separated path or
\* port segments passes ValidateDID.
C20_WebPathsPass ==
    (/\ validated # NotValidated
     /\ did.made.scheme = <<"d", "i", "d">>
     /\ did.made.method = MethodWeb
     /\ Len(did.made.id) >= 3
     /\ AllIn(did.made.id, IdChars \cup {":"})
     /\ Head(did.made.id) # ":" /\ did.made.id[Len(did.made.id)] # ":")
    => validated.err = "nil"

\* ---------------------------------------------------- HealthChecker: properties
\* C21: a readiness probe answers 200 exactly when every checker that ran in the
\* probe returned nil, 503 as soon as one of them returned an error, and 200
\* when no checker is registered
C21_Readiness ==
    hc.pos = "answered" =>
        /\ hc.code \in {StatusOK, StatusServiceUnavailable}
        /\ hc.code = StatusOK <=> \A i \in DOMAIN hc.snap : hc.errs[i] = "nil"
        /\ (\E i \in DOMAIN hc.snap : hc.errs[i] # "nil") => hc.code = StatusServiceUnavailable
        /\ hc.snap = <<>> => hc.code = StatusOK

C21_Witness ==
    /\ hc.pos = "answered"
    /\ Len(hc.snap) = 2
    /\ hc.errs[1] = "nil"
    /\ hc.errs[2] # "nil"
    /\ hc.code = StatusServiceUnavailable

\* C33: while a Check waits, components has one slot per checker of the list it
\* read, the slots written are exactly those of the goroutines that finished,
\* and slot i holds the name and the outcome of checker i; Check returns only
\* when every goroutine finished, with every slot written; the list it read is
\* the first part of the registered list, whatever is registered meanwhile
C33_PerSlot ==
    hc.pos \in {"wait", "answered"} =>
        /\ Len(hc.components) = Len(hc.snap)
        /\ Len(hc.snap) <= Len(hc.checkers)
        /\ SubSeq(hc.checkers, 1, Len(hc.snap)) = hc.snap
        /\ hc.running \subseteq DOMAIN hc.snap
        /\ \A i \in DOMAIN hc.snap :
              /\ i \in hc.running <=> hc.components[i] = NoComponent
              /\ i \notin hc.running =>
                    /\ hc.components[i].name = hc.snap[i]
                    /\ hc.components[i].status = statusFromError(hc.errs[i])
        /\ hc.pos = "answered" => hc.running = {}

\* a checker was registered while a Check of two checkers ran; the second
\* goroutine has finished, the first has not
C33_Witness ==
    /\ hc.pos = "wait"
    /\ Len(hc.snap) = 2
    /\ Len(hc.checkers) = 3
    /\ hc.running = {1}
    /\ hc.components[2].name = hc.snap[2]

\* ------------------------------------------------------- DecodeJSON: properties
HasUnknownField(b) == \E i \in DOMAIN b : b[i].kind = "unknown"
TopLevelValues(b) == Cardinality({i \in DOMAIN b : b[i].kind \in {"object", "unknown"}})

\* C22: DecodeJSON returns an error for every body with an unknown field, for
\* every body with more than one top-level JSON value wherever the extra value
\* lies, and for every body longer than 1 MiB
C22_RejectsExtraAndLong ==
    (/\ hx.err # "not run"
     /\ \/ HasUnknownField(hx.body)
        \/ TopLevelValues(hx.body) > 1
        \/ BodyLen(hx.body) > maxBodyBytes)
    => hx.err # "nil"

\* --------------------------------------------------- ChallengeService: properties
ConsumersOf(n) == {v \in Verifiers : chal.calls[v].nonce = n}
AcceptedBy(n) == {v \in ConsumersOf(n) : chal.calls[v].result = "Ok"}

\* C23: no nonce is accepted twice; and when every ConsumeChallenge for a nonce
\* presents the did it was issued for and all of them have returned before the
\* challenge expires, exactly one returned Ok and every other one
\* NonceUnknownOrReused
C23_SingleUse ==
    \A n \in Nonces :
        /\ Cardinality(AcceptedBy(n)) <= 1
        /\ (/\ ConsumersOf(n) # {}
            /\ \A v \in ConsumersOf(n) : /\ chal.calls[v].pos = "done"
                                         /\ chal.calls[v].did = chal.issued[n].did
            /\ now < chal.issued[n].exp)
           => /\ Cardinality(AcceptedBy(n)) = 1
              /\ \A v \in ConsumersOf(n) \ AcceptedBy(n) :
                     chal.calls[v].result = "NonceUnknownOrReused"

C23_Witness ==
    /\ ConsumersOf("n1") = Verifiers
    /\ \A v \in Verifiers : chal.calls[v].pos = "done" /\ chal.calls[v].did = chal.issued["n1"].did
    /\ now < chal.issued["n1"].exp
    /\ Cardinality(AcceptedBy("n1")) = 1

\* the ConsumeChallenge calls for nonce n that have returned a rejection of the
\* did or of the expiry
RejectedFor(n) ==
    {w \in ConsumersOf(n) : /\ chal.calls[w].pos = "done"
                            /\ chal.calls[w].result \in {"ChallengeSubjectMismatch",
                                                         "ChallengeExpired"}}

\* C34: once a ConsumeChallenge for a nonce has returned ChallengeSubjectMismatch
\* or ChallengeExpired, every ConsumeChallenge for that nonce that begins
\* afterwards returns NonceUnknownOrReused, whatever did it presents
C34_RejectionBurnsNonce ==
    [][\A v \in Verifiers, n \in Nonces :
          (/\ chal.calls[v].pos = "idle"
           /\ chal'.calls[v].pos # "idle"
           /\ chal'.calls[v].nonce = n
           /\ RejectedFor(n) # {})
          => /\ chal'.calls[v].pos = "done"
             /\ chal'.calls[v].result = "NonceUnknownOrReused"]_vars

\* a call with the wrong did was rejected, and the holder's own call for the
\* same nonce, within the lifetime, found the nonce gone
C34_Witness ==
    \E v, w \in Verifiers :
        /\ ConsumersOf("n1") = {v, w}
        /\ w \in RejectedFor("n1")
        /\ chal.calls[w].result = "ChallengeSubjectMismatch"
        /\ chal.calls[v].pos = "done"
        /\ chal.calls[v].did = chal.issued["n1"].did
        /\ chal.calls[v].result = "NonceUnknownOrReused"
        /\ now < chal.issued["n1"].exp

\* -------------------------------------------------------- RateLimiter: properties
RECURSIVE AcceptedIn(_, _)
\* the requests let through that were counted in the n ticks from t on
AcceptedIn(t, n) ==
    IF n = 0 \/ t > MaxTime THEN 0 ELSE rl.acceptedAt[t] + AcceptedIn(t + 1, n - 1)

\* C24: across any interval of length window_seconds the number of accepted
\* requests for the key is at most max_requests plus a slack of at most the
\* number of replicas
C24_WindowBound ==
    \A t \in 0..MaxTime : AcceptedIn(t, WindowSeconds) <= MaxRequests + Cardinality(Replicas)

\* --------------------------------------------------------- VCVerifier: properties
\* C25: VerifyCredential returns UntrustedIssuer for every JWT-VC whose issuer is
\* registered with enabled = false, whatever its subject, iat and exp are
C25_DisabledIsUntrusted ==
    (/\ vcr.result.err # "not run"
     /\ vcr.jwt.alg = "EdDSA"
     /\ vcr.jwt.iss = IssuerOff)
    => vcr.result.err = "UntrustedIssuer"

\* -------------------------------------------------------- TokenSigner: properties
Untampered == tk.token = Sign(tk.claims, <<tk.signedWith>>)
SigningKeyListed == \E i \in DOMAIN tk.keys : tk.keys[i] = tk.signedWith

\* C26: Verify returns the claims that were signed when the token is verified
\* before its exp and the signing key is in the key list, as the active key or,
\* after a rotation, as a legacy key; it returns InvalidToken when no key of the
\* list validates the signature, and rejects every token with now >= exp
C26_RoundTrip ==
    tk.pos = "verified" =>
        /\ (Untampered /\ SigningKeyListed /\ tk.at < tk.claims.exp)
               => tk.result = TokenResult("nil", tk.claims)
        /\ (\A i \in DOMAIN tk.keys : ~Validates(tk.keys[i], tk.token))
               => tk.result.err = "InvalidToken"
        /\ tk.at >= parseClaims(tk.token.payload).exp => tk.result.err # "nil"

C26_Witness ==
    /\ tk.pos = "verified"
    /\ Untampered
    /\ Len(tk.keys) = 2
    /\ tk.keys[2] = tk.signedWith
    /\ tk.keys[1].kid = tk.signedWith.kid
    /\ tk.result = TokenResult("nil", tk.claims)

\* ------------------------------------------------------- PolicyEngine: properties
Matching == {i \in DOMAIN pol.policies : HasPrefix(pol.path, pol.policies[i].route_prefix)}

\* C27: Match returns the policy whose route_prefix is the longest of those that
\* are a prefix of the path, and the deny-all sentinel exactly when no policy's
\* route_prefix is a prefix of the path
C27_LongestPrefix ==
    pol.result # NotMatched =>
        /\ pol.result = DenyAll <=> Matching = {}
        /\ Matching # {} =>
               \E i \in Matching :
                   /\ pol.result = pol.policies[i]
                   /\ \A j \in Matching :
                          Len(pol.policies[j].route_prefix) <= Len(pol.policies[i].route_prefix)

C27_Witness ==
    /\ pol.result # NotMatched
    /\ Cardinality(Matching) = 2
    /\ pol.result = pol.policies[2]
    /\ Len(pol.policies[1].route_prefix) = 1

====
